---- MODULE Spec2Model ----
(***************************************************************************)
(* Model of mrjob.job.MRJob (src/mrjob/job.py): protocol-role negotiation  *)
(* (_script_step_mapping, _mapper_output_protocol,                         *)
(* _pick_protocol_instances), the per-phase execution engine               *)
(* (map_pairs, _combine_or_reduce_pairs), the default pipeline (steps)     *)
(* and the dispatcher (execute, run_mapper, run_combiner, run_reducer,     *)
(* run_spark, show_steps).                                                 *)
(*                                                                         *)
(* Step numbers are 0-based as in the code; the i-th step of a pipeline is *)
(* element i+1 of the TLA+ sequence that holds it.                         *)
(***************************************************************************)
EXTENDS Integers, Sequences, FiniteSets, TLC

VARIABLES
    steps_desc,   \* what self._steps_desc() returns: one description per step
    picked,       \* outcome of the last pick_protocols() call
    steps,        \* what self.steps() returns: the job's pipeline
    args,         \* self.options.args, the positional arguments
    mrc,          \* the phase being run: "mapper", "combiner", "reducer"
    step,         \* the step the running phase got from _get_step()
    input,        \* the pairs handed to the phase, as a whole
    pairs,        \* the part of the input the phase has not pulled yet
    out,          \* the pairs the phase has yielded so far
    calls,        \* the hook invocations so far, in order
    pc,           \* where the phase is
    err,          \* the exception that ended the phase, or "none"
    job,          \* the job class: the methods it redefines, or its steps()
    options,      \* self.options: the switches and --step-num
    builds,       \* how many times the pipeline has been built
    evals,        \* per *_cmd / *_pre_filter method, how often it was called
    ran,          \* the branches of execute() taken so far
    wire,         \* the format the records of the input sources are in
    stdin,        \* the lines of standard input
    stdout,       \* what has been written to self.stdout, write by write
    held,         \* the pairs pulled from the input and not yet passed on
    cur,          \* the hook call under way, when followed pull by pull
    stderr        \* what has been done to self.stderr, call by call

protoVars == <<steps_desc, picked>>
phaseVars == <<steps, args, mrc, step, input, pairs, out, calls, pc, err>>
jobVars == <<job, options, builds, evals, ran, wire, stdin, stdout>>
sideVars == <<held, cur, stderr>>
vars == <<steps_desc, picked, steps, args, mrc, step, input, pairs, out,
          calls, pc, err, job, options, builds, evals, ran, wire, stdin,
          stdout, held, cur, stderr>>

-----------------------------------------------------------------------------
(* Bounds *)

MaxSteps == 3      \* longest pipeline handed to protocol negotiation
MaxLen == 4        \* longest input sequence handed to a phase
MaxArgs == 3       \* longest positional-argument list
MaxOverridden == 2 \* most methods a job without steps() of its own redefines
MaxBuilds == 3     \* no further execute() once the pipeline was built so often
MaxStr == 2        \* longest counter group and counter name

-----------------------------------------------------------------------------
(* Protocol negotiation *)

StepTypes == {"mapper", "combiner", "reducer"}

\* step['mapper'] / step['reducer'] of a step description: its 'type', or
\* "absent" when the key is not in the description.  A description is held
\* with the keys negotiation reads, 'mapper' and 'reducer'.
SubstepTypes == {"absent", "script", "command"}

SparkStepDesc == [type |-> "spark", mapper |-> "absent", reducer |-> "absent"]

StepDescs ==
    {SparkStepDesc} \cup
    [type : {"streaming"}, mapper : SubstepTypes, reducer : SubstepTypes]

StepsDescs == UNION {[1..n -> StepDescs] : n \in 0..MaxSteps}

\* '%d-%s' % (step_num, step_type): distinct arguments give distinct keys
step_key(step_num, step_type) == <<step_num, step_type>>

RECURSIVE script_step_mapping_loop(_, _, _, _)
script_step_mapping_loop(descs, i, mapping, script_step_num) ==
    IF i >= Len(descs) THEN mapping
    ELSE
        LET desc == descs[i + 1]
            isM == desc.mapper = "script"
            mappingM == IF isM
                        THEN (step_key(i, "mapper") :> script_step_num)
                                 @@ mapping
                        ELSE mapping
            numM == IF isM THEN script_step_num + 1 ELSE script_step_num
            isR == desc.reducer = "script"
            mappingR == IF isR
                        THEN (step_key(i, "reducer") :> numM) @@ mappingM
                        ELSE mappingM
            numR == IF isR THEN numM + 1 ELSE numM
        IN  script_step_mapping_loop(descs, i + 1, mappingR, numR)

\* mutation: the counter starts at 1
script_step_mapping_from_one(descs) ==
    script_step_mapping_loop(descs, 0, <<>>, 1)

script_step_mapping(descs) == script_step_mapping_loop(descs, 0, <<>>, 0)

\* mutation: the table is taken to be one entry longer than it is
MapLenOffByOne(step_map) == Cardinality(DOMAIN step_map) + 1

\* len(step_map)
MapLen(step_map) == Cardinality(DOMAIN step_map)

\* mutation: '>' where the code has '>='
mapper_output_protocol_strict(step_num, step_map) ==
    LET map_key == step_key(step_num, "mapper")
    IN  IF map_key \in DOMAIN step_map
        THEN IF step_map[map_key] > MapLen(step_map) - 1
             THEN "output"
             ELSE "internal"
        ELSE "raw"

\* mutation: a combiner behind a non-script mapper gets the internal protocol
mapper_output_protocol_no_raw(step_num, step_map) ==
    LET map_key == step_key(step_num, "mapper")
    IN  IF map_key \in DOMAIN step_map
           /\ step_map[map_key] >= MapLen(step_map) - 1
        THEN "output"
        ELSE "internal"

\* mutation: the last two script phases both count as the last
mapper_output_protocol_last_two(step_num, step_map) ==
    LET map_key == step_key(step_num, "mapper")
    IN  IF map_key \in DOMAIN step_map
        THEN IF step_map[map_key] >= MapLen(step_map) - 2
             THEN "output"
             ELSE "internal"
        ELSE "raw"

mapper_output_protocol(step_num, step_map) ==
    LET map_key == step_key(step_num, "mapper")
    IN  IF map_key \in DOMAIN step_map
        THEN IF step_map[map_key] >= MapLen(step_map) - 1
             THEN "output"
             ELSE "internal"
        ELSE "raw"

\* mutation: a request missing from the table is served as an interior phase
pick_protocol_instances_unchecked(descs, step_num, step_type) ==
    LET step_map == script_step_mapping(descs)
    IN  IF step_type = "combiner"
        THEN LET previous_mapper_output ==
                     mapper_output_protocol(step_num, step_map)
             IN  [err |-> "none",
                  read |-> previous_mapper_output,
                  write |-> previous_mapper_output]
        ELSE LET key == step_key(step_num, step_type)
             IN  IF key \notin DOMAIN step_map
                 THEN [err |-> "none",
                       read |-> "internal", write |-> "internal"]
                 ELSE LET real_num == step_map[key]
                      IN  [err |-> "none",
                           read |-> IF real_num = 0
                                    THEN "input" ELSE "internal",
                           write |-> IF real_num = MapLen(step_map) - 1
                                     THEN "output" ELSE "internal"]

\* mutation: every phase of the first step reads the input protocol
pick_protocol_instances_first_step(descs, step_num, step_type) ==
    LET step_map == script_step_mapping(descs)
    IN  IF step_type = "combiner"
        THEN LET previous_mapper_output ==
                     mapper_output_protocol(step_num, step_map)
             IN  [err |-> "none",
                  read |-> previous_mapper_output,
                  write |-> previous_mapper_output]
        ELSE LET key == step_key(step_num, step_type)
             IN  IF key \notin DOMAIN step_map
                 THEN [err |-> "ValueError: non-script step",
                       read |-> "none", write |-> "none"]
                 ELSE LET real_num == step_map[key]
                      IN  [err |-> "none",
                           read |-> IF step_num = 0
                                    THEN "input" ELSE "internal",
                           write |-> IF real_num = MapLen(step_map) - 1
                                     THEN "output" ELSE "internal"]

pick_protocol_instances(descs, step_num, step_type) ==
    LET step_map == script_step_mapping(descs)
    IN  IF step_type = "combiner"
        THEN LET previous_mapper_output ==
                     mapper_output_protocol(step_num, step_map)
             IN  [err |-> "none",
                  read |-> previous_mapper_output,
                  write |-> previous_mapper_output]
        ELSE LET key == step_key(step_num, step_type)
             IN  IF key \notin DOMAIN step_map
                 THEN [err |-> "ValueError: non-script step",
                       read |-> "none", write |-> "none"]
                 ELSE LET real_num == step_map[key]
                      IN  [err |-> "none",
                           read |-> IF real_num = 0
                                    THEN "input" ELSE "internal",
                           write |-> IF real_num = MapLen(step_map) - 1
                                     THEN "output" ELSE "internal"]

NotPicked == [step_num |-> -1, step_type |-> "none", err |-> "none",
              read |-> "none", write |-> "none"]

\* pick_protocols(step_num, step_type)
PickProtocols(step_num, step_type) ==
    /\ LET r == pick_protocol_instances(steps_desc, step_num, step_type)
       IN  picked' = [step_num |-> step_num, step_type |-> step_type,
                      err |-> r.err, read |-> r.read, write |-> r.write]
    /\ UNCHANGED <<steps_desc, phaseVars>>

-----------------------------------------------------------------------------
(* The pipeline a phase runs in *)

None == "None"

NoOptions == [show_steps |-> FALSE, run_mapper |-> FALSE,
              run_combiner |-> FALSE, run_reducer |-> FALSE,
              run_spark |-> FALSE, step_num |-> 0]

\* the methods a job redefines to define a one-step job
FuncSlots == {"mapper", "mapper_init", "mapper_final", "mapper_raw",
              "mapper_cmd", "mapper_pre_filter",
              "combiner", "combiner_init", "combiner_final",
              "combiner_cmd", "combiner_pre_filter",
              "reducer", "reducer_init", "reducer_final",
              "reducer_cmd", "reducer_pre_filter"}

\* k.endswith('_cmd') or k.endswith('_pre_filter')
CmdSlots == {"mapper_cmd", "mapper_pre_filter",
             "combiner_cmd", "combiner_pre_filter",
             "reducer_cmd", "reducer_pre_filter"}

MapperSlots == {"mapper", "mapper_init", "mapper_final", "mapper_raw"}
CombinerSlots == {"combiner", "combiner_init", "combiner_final"}
ReducerSlots == {"reducer", "reducer_init", "reducer_final"}

\* getattr(self, func_name) for the names in S: each method stands for itself
Methods(S) == [s \in S |-> s]

\* MRStep(**kwargs): the slots in kwargs hold what kwargs gives them, the
\* others None
MRStep(kwargs) ==
    [class |-> "MRStep",
     hooks |-> [s \in FuncSlots |->
                   IF s \in DOMAIN kwargs THEN kwargs[s] ELSE None]]

SparkStep == [class |-> "SparkStep", hooks |-> [s \in FuncSlots |-> None]]

\* the value of 'step' while no step has been fetched
NoStep == [class |-> "NoStep", hooks |-> [s \in FuncSlots |-> None]]

\* the steps phases are run on: every combination of the hooks of one phase
MRSteps ==
    {MRStep(Methods(kwargs)) : kwargs \in (SUBSET MapperSlots) \cup
                                 (SUBSET CombinerSlots) \cup
                                 (SUBSET ReducerSlots)}

\* the pipelines steps() returns here: none, one step, or a spark step
\* followed by a streaming step
JobSteps ==
    {<<>>} \cup {<<s>> : s \in MRSteps \cup {SparkStep}}
           \cup {<<SparkStep, s>> : s \in MRSteps}

\* positional-argument lists of every length, each argument told apart from
\* the others
ArgLists == {[i \in 1..n |-> "arg" \o ToString(i)] : n \in 0..MaxArgs}

Keys == {"A", "B"}

\* input sequences: any keys, and as value the position of the pair, so that
\* every pair of an input is told apart from the others
Inputs ==
    UNION {{[i \in 1..n |-> <<ks[i], i>>] : ks \in [1..n -> Keys]} :
              n \in 0..MaxLen}

\* step[key]: the hook in a slot; a step without a mapper of its own gets the
\* mapper that yields (key, value) as-is
IDENTITY_MAPPER == "_IDENTITY_MAPPER"

StepGetItem(s, key) ==
    IF key = "mapper" /\ s.hooks["mapper"] = None
    THEN IDENTITY_MAPPER
    ELSE s.hooks[key]

\* mrc + '_init', mrc + '_final'
SlotName(m, suffix) ==
    CASE m = "mapper" /\ suffix = "_init" -> "mapper_init"
      [] m = "mapper" /\ suffix = "_final" -> "mapper_final"
      [] m = "combiner" /\ suffix = "_init" -> "combiner_init"
      [] m = "combiner" /\ suffix = "_final" -> "combiner_final"
      [] m = "reducer" /\ suffix = "_init" -> "reducer_init"
      [] m = "reducer" /\ suffix = "_final" -> "reducer_final"

\* mutation: the class of the step is not looked at
get_step_any_class(step_num, expected_type) ==
    IF ~(0 <= step_num /\ step_num < Len(steps))
    THEN [err |-> "ValueError: Out-of-range step", step |-> NoStep]
    ELSE [err |-> "none", step |-> steps[step_num + 1]]

\* _get_step(step_num, expected_type)
get_step(step_num, expected_type) ==
    IF ~(0 <= step_num /\ step_num < Len(steps))
    THEN [err |-> "ValueError: Out-of-range step", step |-> NoStep]
    ELSE IF steps[step_num + 1].class # expected_type
         THEN [err |-> "TypeError: wrong step class", step |-> NoStep]
         ELSE [err |-> "none", step |-> steps[step_num + 1]]

-----------------------------------------------------------------------------
(* The job class and steps() *)

\* a job either leaves steps() alone and redefines some of the methods of
\* FuncSlots and spark(), or redefines steps() to return a pipeline
DefaultJob(overridden) ==
    [kind |-> "default", overridden |-> overridden, pipeline |-> <<>>]

ExplicitJob(pipeline) ==
    [kind |-> "explicit", overridden |-> {}, pipeline |-> pipeline]

NoJob == [kind |-> "none", overridden |-> {}, pipeline |-> <<>>]

\* what calling a redefined *_cmd / *_pre_filter method returns
CmdString(k) == k \o "()"

\* mutation: the *_cmd methods are called before spark() is looked at
default_steps_eager(overridden) ==
    LET kwargs == Methods(overridden)
        updates == [k \in DOMAIN kwargs \cap CmdSlots |-> CmdString(k)]
    IN  IF "spark" \in DOMAIN kwargs
        THEN IF DOMAIN kwargs # {"spark"}
             THEN [err |-> "ValueError: Can't mix spark() and streaming functions",
                   steps |-> <<>>, called |-> DOMAIN updates]
             ELSE [err |-> "none", steps |-> <<SparkStep>>, called |-> {}]
        ELSE [err |-> "none",
              steps |-> IF DOMAIN kwargs # {}
                        THEN <<MRStep(updates @@ kwargs)>> ELSE <<>>,
              called |-> DOMAIN updates]

\* mutation: the methods come as they are, none of them is called
default_steps_uncalled(overridden) ==
    LET kwargs == Methods(overridden)
    IN  IF "spark" \in DOMAIN kwargs
        THEN IF DOMAIN kwargs # {"spark"}
             THEN [err |-> "ValueError: Can't mix spark() and streaming functions",
                   steps |-> <<>>, called |-> {}]
             ELSE [err |-> "none", steps |-> <<SparkStep>>, called |-> {}]
        ELSE [err |-> "none",
              steps |-> IF DOMAIN kwargs # {}
                        THEN <<MRStep(kwargs)>> ELSE <<>>,
              called |-> {}]

\* MRJob.steps(): the pipeline, and the *_cmd / *_pre_filter methods it
\* called on the way
default_steps(overridden) ==
    LET kwargs == Methods(overridden)
        updates == [k \in DOMAIN kwargs \cap CmdSlots |-> CmdString(k)]
    IN  IF "spark" \in DOMAIN kwargs
        THEN IF DOMAIN kwargs # {"spark"}
             THEN [err |-> "ValueError: Can't mix spark() and streaming functions",
                   steps |-> <<>>, called |-> {}]
             ELSE [err |-> "none", steps |-> <<SparkStep>>, called |-> {}]
        ELSE [err |-> "none",
              steps |-> IF DOMAIN kwargs # {}
                        THEN <<MRStep(updates @@ kwargs)>> ELSE <<>>,
              called |-> DOMAIN updates]

\* mutation: a pipeline from the job's own steps() that holds a spark step
\* next to a streaming step is turned down
job_steps_validated(j) ==
    IF j.kind = "explicit"
    THEN IF /\ \E i \in 1..Len(j.pipeline) : j.pipeline[i].class = "SparkStep"
            /\ \E i \in 1..Len(j.pipeline) : j.pipeline[i].class = "MRStep"
         THEN [err |-> "ValueError: Can't mix spark() and streaming functions",
               steps |-> <<>>, called |-> {}]
         ELSE [err |-> "none", steps |-> j.pipeline, called |-> {}]
    ELSE default_steps(j.overridden)

\* self.steps() of a job
job_steps(j) ==
    IF j.kind = "explicit"
    THEN [err |-> "none", steps |-> j.pipeline, called |-> {}]
    ELSE default_steps(j.overridden)

-----------------------------------------------------------------------------
(* The job's hooks: what each one yields *)

RECURSIVE Repeat(_, _)
Repeat(x, n) == IF n = 0 THEN <<>> ELSE <<x>> \o Repeat(x, n - 1)

\* an init or final hook yields one pair that names it
InitFinalYields(hook) == <<<<hook, 0>>>>

\* the job's mapper yields its pair 1, 2, 0, 1, ... times, by value; the
\* identity mapper yields it once
MapperYields(hook, key, value) ==
    IF hook = IDENTITY_MAPPER
    THEN <<<<key, value>>>>
    ELSE Repeat(<<key, value>>, value % 3)

\* mapper_raw yields one pair made of its two arguments
MapperRawYields(input_path, input_uri) == <<<<input_path, input_uri>>>>

\* a combiner or reducer yields the key with the number of values it got
TaskYields(hook, key, values) == <<<<key, Len(values)>>>>

Call(hook, key, values) == [hook |-> hook, key |-> key, values |-> values]

\* no hook call followed pull by pull, nothing done to stderr
NoCall == [hook |-> None, key |-> None, values |-> <<>>, emitted |-> 0,
           over |-> FALSE]

-----------------------------------------------------------------------------
(* map_pairs *)

\* map_pairs(pairs, step_num) up to its first hook
StartMapPairs(ps, step_num) ==
    /\ pc = "idle"
    /\ mrc' = "mapper"
    /\ input' = ps
    /\ pairs' = ps
    /\ LET got == get_step(step_num, "MRStep")
       IN  IF got.err # "none"
           THEN /\ err' = got.err
                /\ pc' = "failed"
                /\ step' = step
           ELSE /\ err' = err
                /\ pc' = "init"
                /\ step' = got.step
    /\ UNCHANGED <<protoVars, steps, args, out, calls>>

\* mutation: the number of arguments is looked at before mapper_init runs
MapperInitAfterArity ==
    /\ pc = "init"
    /\ mrc = "mapper"
    /\ IF StepGetItem(step, "mapper_raw") # None /\ Len(args) # 2
       THEN /\ err' = "ValueError: Wrong number of args"
            /\ pc' = "failed"
            /\ UNCHANGED <<calls, out>>
       ELSE /\ LET mapper_init == StepGetItem(step, "mapper_init")
               IN  IF mapper_init # None
                   THEN /\ calls' = Append(calls,
                                          Call(mapper_init, None, <<>>))
                        /\ out' = out \o InitFinalYields(mapper_init)
                   ELSE UNCHANGED <<calls, out>>
            /\ pc' = "body"
            /\ err' = err
    /\ UNCHANGED <<protoVars, steps, args, mrc, step, input, pairs>>

MapperInit ==
    /\ pc = "init"
    /\ mrc = "mapper"
    /\ LET mapper_init == StepGetItem(step, "mapper_init")
       IN  IF mapper_init # None
           THEN /\ calls' = Append(calls, Call(mapper_init, None, <<>>))
                /\ out' = out \o InitFinalYields(mapper_init)
           ELSE UNCHANGED <<calls, out>>
    /\ pc' = "body"
    /\ UNCHANGED <<protoVars, steps, args, mrc, step, input, pairs, err>>

\* mutation: more than two positional arguments are let through
MapperRawAtLeastTwo ==
    /\ pc = "body"
    /\ mrc = "mapper"
    /\ StepGetItem(step, "mapper_raw") # None
    /\ IF Len(args) < 2
       THEN /\ err' = "ValueError: Wrong number of args"
            /\ pc' = "failed"
            /\ UNCHANGED <<calls, out>>
       ELSE LET mapper_raw == StepGetItem(step, "mapper_raw")
                input_path == args[1]
                input_uri == args[2]
            IN  /\ calls' = Append(calls,
                       Call(mapper_raw, None, <<input_path, input_uri>>))
                /\ out' = out \o MapperRawYields(input_path, input_uri)
                /\ pc' = "final"
                /\ err' = err
    /\ UNCHANGED <<protoVars, steps, args, mrc, step, input, pairs>>

MapperRaw ==
    /\ pc = "body"
    /\ mrc = "mapper"
    /\ StepGetItem(step, "mapper_raw") # None
    /\ IF Len(args) # 2
       THEN /\ err' = "ValueError: Wrong number of args"
            /\ pc' = "failed"
            /\ UNCHANGED <<calls, out>>
       ELSE LET mapper_raw == StepGetItem(step, "mapper_raw")
                input_path == args[1]
                input_uri == args[2]
            IN  /\ calls' = Append(calls,
                       Call(mapper_raw, None, <<input_path, input_uri>>))
                /\ out' = out \o MapperRawYields(input_path, input_uri)
                /\ pc' = "final"
                /\ err' = err
    /\ UNCHANGED <<protoVars, steps, args, mrc, step, input, pairs>>

\* mutation: the pairs are taken from the far end
MapperPairFromEnd ==
    /\ pc = "body"
    /\ mrc = "mapper"
    /\ StepGetItem(step, "mapper_raw") = None
    /\ pairs # <<>>
    /\ LET mapper == StepGetItem(step, "mapper")
           key == pairs[Len(pairs)][1]
           value == pairs[Len(pairs)][2]
       IN  /\ calls' = Append(calls, Call(mapper, key, <<value>>))
           /\ out' = out \o MapperYields(mapper, key, value)
    /\ pairs' = SubSeq(pairs, 1, Len(pairs) - 1)
    /\ UNCHANGED <<protoVars, steps, args, mrc, step, input, pc, err>>

\* one turn of 'for key, value in pairs'
MapperPair ==
    /\ pc = "body"
    /\ mrc = "mapper"
    /\ StepGetItem(step, "mapper_raw") = None
    /\ pairs # <<>>
    /\ LET mapper == StepGetItem(step, "mapper")
           key == Head(pairs)[1]
           value == Head(pairs)[2]
       IN  /\ calls' = Append(calls, Call(mapper, key, <<value>>))
           /\ out' = out \o MapperYields(mapper, key, value)
    /\ pairs' = Tail(pairs)
    /\ UNCHANGED <<protoVars, steps, args, mrc, step, input, pc, err>>

\* 'for key, value in pairs' runs out of pairs
MapperPairsDone ==
    /\ pc = "body"
    /\ mrc = "mapper"
    /\ StepGetItem(step, "mapper_raw") = None
    /\ pairs = <<>>
    /\ pc' = "final"
    /\ UNCHANGED <<protoVars, steps, args, mrc, step, input, pairs, out,
                   calls, err>>

\* mutation: mapper_final is called and what it yields is dropped
MapperFinalDropped ==
    /\ pc = "final"
    /\ mrc = "mapper"
    /\ LET mapper_final == StepGetItem(step, "mapper_final")
       IN  IF mapper_final # None
           THEN /\ calls' = Append(calls, Call(mapper_final, None, <<>>))
                /\ out' = out
           ELSE UNCHANGED <<calls, out>>
    /\ pc' = "done"
    /\ UNCHANGED <<protoVars, steps, args, mrc, step, input, pairs, err>>

MapperFinal ==
    /\ pc = "final"
    /\ mrc = "mapper"
    /\ LET mapper_final == StepGetItem(step, "mapper_final")
       IN  IF mapper_final # None
           THEN /\ calls' = Append(calls, Call(mapper_final, None, <<>>))
                /\ out' = out \o InitFinalYields(mapper_final)
           ELSE UNCHANGED <<calls, out>>
    /\ pc' = "done"
    /\ UNCHANGED <<protoVars, steps, args, mrc, step, input, pairs, err>>

-----------------------------------------------------------------------------
(* _combine_or_reduce_pairs *)

\* mutation: every pair is a group of its own
GroupLenOne(ps, tgtkey) == IF ps = <<>> THEN 0 ELSE 1

\* itertools.groupby(pairs, lambda k_v: k_v[0]): the number of pairs at the
\* head of ps whose key equals tgtkey
RECURSIVE GroupLen(_, _)
GroupLen(ps, tgtkey) ==
    IF ps = <<>> \/ Head(ps)[1] # tgtkey
    THEN 0
    ELSE 1 + GroupLen(Tail(ps), tgtkey)

\* mutation: the 'task is None' test is missing
StartCombineOrReducePairsUnchecked(ps, m, step_num) ==
    /\ pc = "idle"
    /\ mrc' = m
    /\ input' = ps
    /\ pairs' = ps
    /\ LET got == get_step(step_num, "MRStep")
       IN  IF got.err # "none"
           THEN /\ err' = got.err
                /\ pc' = "failed"
                /\ step' = step
           ELSE /\ err' = err
                /\ pc' = "init"
                /\ step' = got.step
    /\ UNCHANGED <<protoVars, steps, args, out, calls>>

\* combine_pairs / reduce_pairs(pairs, step_num) up to the first hook
StartCombineOrReducePairs(ps, m, step_num) ==
    /\ pc = "idle"
    /\ mrc' = m
    /\ input' = ps
    /\ pairs' = ps
    /\ LET got == get_step(step_num, "MRStep")
       IN  IF got.err # "none"
           THEN /\ err' = got.err
                /\ pc' = "failed"
                /\ step' = step
           ELSE IF StepGetItem(got.step, m) = None
                THEN /\ err' = "ValueError: No task in step"
                     /\ pc' = "failed"
                     /\ step' = got.step
                ELSE /\ err' = err
                     /\ pc' = "init"
                     /\ step' = got.step
    /\ UNCHANGED <<protoVars, steps, args, out, calls>>

TaskInit ==
    /\ pc = "init"
    /\ mrc \in {"combiner", "reducer"}
    /\ LET task_init == StepGetItem(step, SlotName(mrc, "_init"))
       IN  IF task_init # None
           THEN /\ calls' = Append(calls, Call(task_init, None, <<>>))
                /\ out' = out \o InitFinalYields(task_init)
           ELSE UNCHANGED <<calls, out>>
    /\ pc' = "body"
    /\ UNCHANGED <<protoVars, steps, args, mrc, step, input, pairs, err>>

\* one turn of 'for key, pairs_for_key in itertools.groupby(...)'
TaskGroup ==
    /\ pc = "body"
    /\ mrc \in {"combiner", "reducer"}
    /\ pairs # <<>>
    /\ LET task == StepGetItem(step, mrc)
           key == Head(pairs)[1]
           n == GroupLen(pairs, key)
           values == [i \in 1..n |-> pairs[i][2]]
       IN  /\ calls' = Append(calls, Call(task, key, values))
           /\ out' = out \o TaskYields(task, key, values)
           /\ pairs' = SubSeq(pairs, n + 1, Len(pairs))
    /\ UNCHANGED <<protoVars, steps, args, mrc, step, input, pc, err>>

\* groupby runs out of pairs
TaskGroupsDone ==
    /\ pc = "body"
    /\ mrc \in {"combiner", "reducer"}
    /\ pairs = <<>>
    /\ pc' = "final"
    /\ UNCHANGED <<protoVars, steps, args, mrc, step, input, pairs, out,
                   calls, err>>

TaskFinal ==
    /\ pc = "final"
    /\ mrc \in {"combiner", "reducer"}
    /\ LET task_final == StepGetItem(step, SlotName(mrc, "_final"))
       IN  IF task_final # None
           THEN /\ calls' = Append(calls, Call(task_final, None, <<>>))
                /\ out' = out \o InitFinalYields(task_final)
           ELSE UNCHANGED <<calls, out>>
    /\ pc' = "done"
    /\ UNCHANGED <<protoVars, steps, args, mrc, step, input, pairs, err>>

-----------------------------------------------------------------------------
(* Reading and writing records *)

\* a line of input or a piece written to stdout: the bytes that carry a
\* record in some protocol's format, and the run of CR and LF bytes after them
Bytes(f, k, v, tail) == [fmt |-> f, key |-> k, value |-> v, tail |-> tail]

LF == "\n"
CR == "\r"

\* b'\n'
Newline == Bytes("none", None, 0, <<LF>>)

\* the lines in a file, by path: the second line ends in CR LF, the third
\* record ends in a CR of its own, the last line has no newline
FileLines(path) ==
    CASE path = "arg1" -> <<Bytes(wire, "A", 1, <<LF>>),
                            Bytes(wire, "A", 2, <<CR, LF>>)>>
      [] path = "arg2" -> <<Bytes(wire, "B", 3, <<CR, CR, LF>>)>>
      [] path = "arg3" -> <<Bytes(wire, "A", 4, <<>>)>>
      [] OTHER -> <<>>

\* what standard input can hold
StdinLines(w) ==
    {<<>>, <<Bytes(w, "B", 5, <<LF>>), Bytes(w, "B", 6, <<CR>>)>>}

\* 'for path in paths': stdin is a stream, a second '-' finds it exhausted
RECURSIVE read_paths(_, _)
read_paths(paths, in) ==
    IF paths = <<>>
    THEN <<>>
    ELSE IF Head(paths) = "-"
         THEN in \o read_paths(Tail(paths), <<>>)
         ELSE FileLines(Head(paths)) \o read_paths(Tail(paths), in)

\* _read_input(): paths = self.options.args or ['-']
read_input == read_paths(IF args = <<>> THEN <<"-">> ELSE args, stdin)

\* line.rstrip(b'\r\n'): every trailing CR and LF goes
rstrip(line) == [line EXCEPT !.tail = <<>>]

\* a protocol's read(): RawValueProtocol gives (None, line); the others give
\* back the pair the bytes carry when the bytes are in their format and
\* nothing follows the record, and some other pair when not
Read(role, b) ==
    IF role = "raw"
    THEN <<None, b>>
    ELSE IF b.fmt = role /\ b.tail = <<>>
         THEN <<b.key, b.value>>
         ELSE <<"?", 0>>

\* a protocol's write(): RawValueProtocol writes the value alone
Write(role, key, value) ==
    Bytes(role, IF role = "raw" THEN None ELSE key, value, <<>>)

\* mutation: the lines are decoded as they come, newline and all
read_lines_unstripped(role) ==
    LET lines == read_input
    IN  [i \in 1..Len(lines) |-> Read(role, lines[i])]

\* read_lines() of _wrap_protocols
read_lines(role) ==
    LET lines == read_input
    IN  [i \in 1..Len(lines) |-> Read(role, rstrip(lines[i]))]

\* write_line(key, value) for each pair of ps
RECURSIVE write_lines(_, _)
write_lines(role, ps) ==
    IF ps = <<>>
    THEN <<>>
    ELSE <<Write(role, Head(ps)[1], Head(ps)[2]), Newline>>
             \o write_lines(role, Tail(ps))

-----------------------------------------------------------------------------
(* execute() and the run_* methods *)

\* step.description(step_num), with the keys negotiation reads: a phase is
\* in the description when one of its slots is set, as a command when its
\* *_cmd slot is set and as a script otherwise
SubstepDesc(s, m) ==
    IF s.hooks[m \o "_cmd"] # None
    THEN "command"
    ELSE IF \E k \in {m, m \o "_init", m \o "_final", m \o "_pre_filter"} :
                s.hooks[k] # None
         THEN "script"
         ELSE IF m = "mapper" /\ s.hooks["mapper_raw"] # None
              THEN "script"
              ELSE "absent"

description(s) ==
    IF s.class = "SparkStep"
    THEN SparkStepDesc
    ELSE [type |-> "streaming",
          mapper |-> SubstepDesc(s, "mapper"),
          reducer |-> SubstepDesc(s, "reducer")]

\* _steps_desc() over the steps that self.steps() returned
steps_desc_of(ss) == [i \in 1..Len(ss) |-> description(ss[i])]

\* json.dumps(self._steps_desc())
steps_json(descs) == Bytes("json", None, descs, <<>>)

Switches == {"show_steps", "run_mapper", "run_combiner", "run_reducer",
             "run_spark"}

\* the options with the switches of on set
Options(on, step_num) ==
    [show_steps |-> "show_steps" \in on,
     run_mapper |-> "run_mapper" \in on,
     run_combiner |-> "run_combiner" \in on,
     run_reducer |-> "run_reducer" \in on,
     run_spark |-> "run_spark" \in on,
     step_num |-> step_num]

\* mutation: the chain is gone through from its far end
BranchLastFirst(o) ==
    IF o.run_spark THEN "run_spark"
    ELSE IF o.run_reducer THEN "run_reducer"
    ELSE IF o.run_combiner THEN "run_combiner"
    ELSE IF o.run_mapper THEN "run_mapper"
    ELSE IF o.show_steps THEN "show_steps"
    ELSE "launcher"

\* the if / elif chain of execute()
Branch(o) ==
    IF o.show_steps THEN "show_steps"
    ELSE IF o.run_mapper THEN "run_mapper"
    ELSE IF o.run_combiner THEN "run_combiner"
    ELSE IF o.run_reducer THEN "run_reducer"
    ELSE IF o.run_spark THEN "run_spark"
    ELSE "launcher"

\* 'mapper', 'combiner', 'reducer' as run_mapper, run_combiner and
\* run_reducer pass it on
StepTypeOf(branch) ==
    CASE branch = "run_mapper" -> "mapper"
      [] branch = "run_combiner" -> "combiner"
      [] branch = "run_reducer" -> "reducer"

\* mutation: the pipeline is built on the first call and kept
StepsCalledCached(n) ==
    /\ builds' = IF builds = 0 THEN 1 ELSE builds
    /\ evals' = [k \in CmdSlots |->
                    IF k \in job_steps(job).called /\ builds = 0
                    THEN 1 ELSE evals[k]]

\* n calls of self.steps(): each one builds the pipeline and calls the
\* job's *_cmd and *_pre_filter methods
StepsCalled(n) ==
    /\ builds' = builds + n
    /\ evals' = [k \in CmdSlots |->
                    IF k \in job_steps(job).called
                    THEN evals[k] + n ELSE evals[k]]

\* mutation: steps that were shown before are not shown again
ShowStepsOnce ==
    /\ job.kind # "none"
    /\ ran = <<>>
    /\ Branch(options) = "show_steps"
    /\ ran' = <<"show_steps">>
    /\ StepsCalled(1)
    /\ LET built == job_steps(job)
       IN  IF built.err # "none"
           THEN /\ err' = built.err
                /\ pc' = "failed"
                /\ stdout' = stdout
           ELSE /\ err' = err
                /\ pc' = "done"
                /\ stdout' = stdout \o
                       (IF stdout = <<>>
                        THEN <<steps_json(steps_desc_of(built.steps))>>
                        ELSE <<>>) \o <<Newline>>
    /\ UNCHANGED <<protoVars, steps, args, mrc, step, input, pairs, out,
                   calls, job, options, wire, stdin>>

\* show_steps(), as execute() calls it
ShowSteps ==
    /\ job.kind # "none"
    /\ ran = <<>>
    /\ Branch(options) = "show_steps"
    /\ ran' = <<"show_steps">>
    /\ StepsCalled(1)
    /\ LET built == job_steps(job)
       IN  IF built.err # "none"
           THEN /\ err' = built.err
                /\ pc' = "failed"
                /\ stdout' = stdout
           ELSE /\ err' = err
                /\ pc' = "done"
                /\ stdout' = stdout \o
                       <<steps_json(steps_desc_of(built.steps)), Newline>>
    /\ UNCHANGED <<protoVars, steps, args, mrc, step, input, pairs, out,
                   calls, job, options, wire, stdin>>

\* mutation: the switches are looked at one after the other, none excludes
\* the next
WrapProtocolsAnySwitch ==
    /\ job.kind # "none"
    /\ picked = NotPicked
    /\ pc \in {"idle", "done"}
    /\ \E branch \in {"run_mapper", "run_combiner", "run_reducer"} :
          /\ options[branch]
          /\ ran' = Append(ran, branch)
          /\ StepsCalled(1)
          /\ LET built == job_steps(job)
                 r == pick_protocol_instances(steps_desc_of(built.steps),
                                              options.step_num,
                                              StepTypeOf(branch))
             IN  /\ picked' = [step_num |-> options.step_num,
                               step_type |-> StepTypeOf(branch),
                               err |-> r.err, read |-> r.read,
                               write |-> r.write]
                 /\ err' = r.err
                 /\ pc' = IF r.err # "none" THEN "failed" ELSE "idle"
    /\ UNCHANGED <<steps_desc, steps, args, mrc, step, input, pairs, out,
                   calls, job, options, wire, stdin, stdout>>

\* run_mapper, run_combiner and run_reducer up to the for loop:
\* _wrap_protocols(step_num, step_type)
WrapProtocols ==
    /\ job.kind # "none"
    /\ ran = <<>>
    /\ Branch(options) \in {"run_mapper", "run_combiner", "run_reducer"}
    /\ ran' = <<Branch(options)>>
    /\ StepsCalled(1)
    /\ LET built == job_steps(job)
           step_type == StepTypeOf(Branch(options))
           r == pick_protocol_instances(steps_desc_of(built.steps),
                                        options.step_num, step_type)
       IN  IF built.err # "none"
           THEN /\ err' = built.err
                /\ pc' = "failed"
                /\ picked' = picked
           ELSE /\ picked' = [step_num |-> options.step_num,
                              step_type |-> step_type,
                              err |-> r.err, read |-> r.read,
                              write |-> r.write]
                /\ err' = r.err
                /\ pc' = IF r.err # "none" THEN "failed" ELSE "idle"
    /\ UNCHANGED <<steps_desc, steps, args, mrc, step, input, pairs, out,
                   calls, job, options, wire, stdin, stdout>>

\* the for loop of run_mapper asks map_pairs for its first pair
RunMapper ==
    /\ ran = <<"run_mapper">>
    /\ picked # NotPicked
    /\ StartMapPairs(read_lines(picked.read), options.step_num)
    /\ StepsCalled(1)
    /\ UNCHANGED <<job, options, ran, wire, stdin, stdout>>

\* the for loop of run_combiner or run_reducer asks for its first pair
RunCombinerOrReducer ==
    /\ ran \in {<<"run_combiner">>, <<"run_reducer">>}
    /\ picked # NotPicked
    /\ StartCombineOrReducePairs(read_lines(picked.read), picked.step_type,
                                 options.step_num)
    /\ StepsCalled(1)
    /\ UNCHANGED <<job, options, ran, wire, stdin, stdout>>

\* one more step of the phase, and write_line(k, v) for each pair it yields
WritePairs ==
    /\ ran # <<>>
    /\ \/ MapperInit
       \/ MapperRaw
       \/ MapperPair
       \/ MapperPairsDone
       \/ MapperFinal
       \/ TaskInit
       \/ TaskGroup
       \/ TaskGroupsDone
       \/ TaskFinal
    /\ stdout' = stdout \o
           write_lines(picked.write, SubSeq(out', Len(out) + 1, Len(out')))
    /\ UNCHANGED <<job, options, builds, evals, ran, wire, stdin>>

\* the hook a running phase calls next, its arguments and what it would
\* yield; None when it has no hook to call
NextHook ==
    IF pc = "init"
    THEN LET h == StepGetItem(step, SlotName(mrc, "_init"))
         IN  [hook |-> h, key |-> None, values |-> <<>>,
              yields |-> InitFinalYields(h), taken |-> 0]
    ELSE IF pc = "final"
    THEN LET h == StepGetItem(step, SlotName(mrc, "_final"))
         IN  [hook |-> h, key |-> None, values |-> <<>>,
              yields |-> InitFinalYields(h), taken |-> 0]
    ELSE IF pc # "body"
    THEN [hook |-> None, key |-> None, values |-> <<>>, yields |-> <<>>,
          taken |-> 0]
    ELSE IF mrc = "mapper" /\ StepGetItem(step, "mapper_raw") # None
    THEN IF Len(args) # 2
         THEN [hook |-> None, key |-> None, values |-> <<>>,
               yields |-> <<>>, taken |-> 0]
         ELSE [hook |-> StepGetItem(step, "mapper_raw"), key |-> None,
               values |-> <<args[1], args[2]>>,
               yields |-> MapperRawYields(args[1], args[2]), taken |-> 0]
    ELSE IF pairs = <<>>
    THEN [hook |-> None, key |-> None, values |-> <<>>, yields |-> <<>>,
          taken |-> 0]
    ELSE IF mrc = "mapper"
    THEN LET h == StepGetItem(step, "mapper")
         IN  [hook |-> IF h = IDENTITY_MAPPER THEN None ELSE h,
              key |-> Head(pairs)[1], values |-> <<Head(pairs)[2]>>,
              yields |-> MapperYields(h, Head(pairs)[1], Head(pairs)[2]),
              taken |-> 1]
    ELSE LET key == Head(pairs)[1]
             n == GroupLen(pairs, key)
             values == [i \in 1..n |-> pairs[i][2]]
             h == StepGetItem(step, mrc)
         IN  [hook |-> h, key |-> key, values |-> values,
              yields |-> TaskYields(h, key, values), taken |-> n]

\* what a hook raises
HookError(hook) == "Exception in " \o hook

\* mutation: the final hook is run on the way out of a failed body hook
HookRaisesFinally ==
    /\ ran # <<>>
    /\ pc \in {"init", "body", "final"}
    /\ NextHook.hook # None
    /\ LET final == StepGetItem(step, SlotName(mrc, "_final"))
           then == IF pc = "body" /\ final # None
                   THEN <<Call(final, None, <<>>)>> ELSE <<>>
       IN  \E n \in 0..Len(NextHook.yields) :
              /\ calls' = Append(calls, Call(NextHook.hook, NextHook.key,
                                             NextHook.values)) \o then
              /\ out' = out \o SubSeq(NextHook.yields, 1, n)
              /\ stdout' = stdout \o
                     write_lines(picked.write, SubSeq(NextHook.yields, 1, n))
    /\ pairs' = SubSeq(pairs, NextHook.taken + 1, Len(pairs))
    /\ pc' = "failed"
    /\ err' = HookError(NextHook.hook)
    /\ UNCHANGED <<protoVars, steps, args, mrc, step, input, job, options,
                   builds, evals, ran, wire, stdin>>

\* a hook of the job raises, after some of its pairs: nothing in map_pairs,
\* _combine_or_reduce_pairs or the run_* methods catches it
HookRaises ==
    /\ ran # <<>>
    /\ pc \in {"init", "body", "final"}
    /\ NextHook.hook # None
    /\ \E n \in 0..Len(NextHook.yields) :
          /\ calls' = Append(calls, Call(NextHook.hook, NextHook.key,
                                         NextHook.values))
          /\ out' = out \o SubSeq(NextHook.yields, 1, n)
          /\ stdout' = stdout \o
                 write_lines(picked.write, SubSeq(NextHook.yields, 1, n))
    /\ pairs' = SubSeq(pairs, NextHook.taken + 1, Len(pairs))
    /\ pc' = "failed"
    /\ err' = HookError(NextHook.hook)
    /\ UNCHANGED <<protoVars, steps, args, mrc, step, input, job, options,
                   builds, evals, ran, wire, stdin>>

\* mutation: any argument list that is not empty is let through
RunSparkOneArg ==
    /\ job.kind # "none"
    /\ ran = <<>>
    /\ Branch(options) = "run_spark"
    /\ ran' = <<"run_spark">>
    /\ mrc' = "spark"
    /\ StepsCalled(1)
    /\ LET built == job_steps(job)
           got == get_step(options.step_num, "SparkStep")
       IN  IF built.err # "none"
           THEN err' = built.err /\ pc' = "failed" /\ calls' = calls
           ELSE IF got.err # "none"
           THEN err' = got.err /\ pc' = "failed" /\ calls' = calls
           ELSE IF Len(args) < 1
           THEN /\ err' = "ValueError: Wrong number of args"
                /\ pc' = "failed"
                /\ calls' = calls
           ELSE /\ calls' = Append(calls, Call("spark", None, args))
                /\ pc' = "done"
                /\ err' = err
    /\ UNCHANGED <<protoVars, steps, args, step, input, pairs, out, job,
                   options, wire, stdin, stdout>>

\* run_spark(step_num)
RunSpark ==
    /\ job.kind # "none"
    /\ ran = <<>>
    /\ Branch(options) = "run_spark"
    /\ ran' = <<"run_spark">>
    /\ mrc' = "spark"
    /\ StepsCalled(1)
    /\ LET built == job_steps(job)
           got == get_step(options.step_num, "SparkStep")
       IN  IF built.err # "none"
           THEN err' = built.err /\ pc' = "failed" /\ calls' = calls
           ELSE IF got.err # "none"
           THEN err' = got.err /\ pc' = "failed" /\ calls' = calls
           ELSE IF Len(args) # 2
           THEN /\ err' = "ValueError: Wrong number of args"
                /\ pc' = "failed"
                /\ calls' = calls
           ELSE LET input_path == args[1]
                    output_path == args[2]
                IN  /\ calls' = Append(calls, Call("spark", None,
                                           <<input_path, output_path>>))
                    /\ pc' = "done"
                    /\ err' = err
    /\ UNCHANGED <<protoVars, steps, args, step, input, pairs, out, job,
                   options, wire, stdin, stdout>>

\* super(MRJob, self).execute(): the launcher's part, none of this state
Launcher ==
    /\ job.kind # "none"
    /\ ran = <<>>
    /\ Branch(options) = "launcher"
    /\ ran' = <<"launcher">>
    /\ pc' = "done"
    /\ UNCHANGED <<protoVars, steps, args, mrc, step, input, pairs, out,
                   calls, err, job, options, builds, evals, wire, stdin,
                   stdout>>

-----------------------------------------------------------------------------
(* A phase, pull by pull: the generators of run_mapper, run_combiner and
   run_reducer advance only when the for loop of the run_* method asks for
   the next pair.  pairs is what the source has yet to deliver, held what
   was read from it and not passed on, cur the call of the body hook under
   way; a call enters calls when it returns, with what it was handed. *)

\* the pairs the call under way yields: a mapper's depend on its pair, a
\* combiner's or reducer's on the values it has taken
Yields(c) ==
    IF mrc = "mapper"
    THEN MapperYields(c.hook, c.key, c.values[1])
    ELSE TaskYields(c.hook, c.key, c.values)

\* the steps of a phase that read nothing: the init and final hooks,
\* mapper_raw, and the end of 'for key, value in pairs'
Unpulled ==
    /\ ran # <<>>
    /\ cur.hook = None
    /\ held = <<>>
    /\ \/ MapperInit
       \/ MapperRaw
       \/ MapperPairsDone
       \/ MapperFinal
       \/ TaskInit
       \/ TaskFinal
    /\ stdout' = stdout \o
           write_lines(picked.write, SubSeq(out', Len(out) + 1, Len(out')))
    /\ UNCHANGED <<job, options, builds, evals, ran, wire, stdin, sideVars>>

\* 'for key, value in pairs' of map_pairs asks read_lines() for a pair
MapperReads ==
    /\ ran # <<>>
    /\ pc = "body"
    /\ mrc = "mapper"
    /\ StepGetItem(step, "mapper_raw") = None
    /\ cur.hook = None
    /\ held = <<>>
    /\ pairs # <<>>
    /\ held' = <<Head(pairs)>>
    /\ pairs' = Tail(pairs)
    /\ UNCHANGED <<protoVars, steps, args, mrc, step, input, out, calls, pc,
                   err, jobVars, cur, stderr>>

\* mapper(key, value)
MapperCalls ==
    /\ ran # <<>>
    /\ pc = "body"
    /\ mrc = "mapper"
    /\ cur.hook = None
    /\ held # <<>>
    /\ cur' = [hook |-> StepGetItem(step, "mapper"), key |-> Head(held)[1],
               values |-> <<Head(held)[2]>>, emitted |-> 0, over |-> TRUE]
    /\ held' = Tail(held)
    /\ UNCHANGED <<protoVars, steps, args, mrc, step, input, pairs, out,
                   calls, pc, err, jobVars, stderr>>

\* mutation: what a hook left of its run is not passed over, the next pair
\* starts a group whatever its key
GroupbyReadsNoSkip ==
    /\ ran # <<>>
    /\ pc = "body"
    /\ mrc \in {"combiner", "reducer"}
    /\ cur.hook = None
    /\ held = <<>> \/ ~cur.over
    /\ pairs # <<>>
    /\ held' = <<Head(pairs)>>
    /\ pairs' = Tail(pairs)
    /\ cur' = [cur EXCEPT !.over = TRUE]
    /\ UNCHANGED <<protoVars, steps, args, mrc, step, input, out, calls, pc,
                   err, jobVars, stderr>>

\* groupby's __next__ reads on, past what is left of the run it gave out
\* last, until it holds a pair with another key
GroupbyReads ==
    /\ ran # <<>>
    /\ pc = "body"
    /\ mrc \in {"combiner", "reducer"}
    /\ cur.hook = None
    /\ held = <<>> \/ ~cur.over
    /\ pairs # <<>>
    /\ held' = <<Head(pairs)>>
    /\ pairs' = Tail(pairs)
    /\ cur' = [cur EXCEPT !.over = (Head(pairs)[1] # cur.key)]
    /\ UNCHANGED <<protoVars, steps, args, mrc, step, input, out, calls, pc,
                   err, jobVars, stderr>>

\* mutation: the whole run is read before the hook is called
GroupbyCallsWholeRun ==
    /\ ran # <<>>
    /\ pc = "body"
    /\ mrc \in {"combiner", "reducer"}
    /\ cur.hook = None
    /\ held # <<>>
    /\ cur.over
    /\ LET n == GroupLen(pairs, Head(held)[1])
       IN  /\ held' = held \o SubSeq(pairs, 1, n)
           /\ pairs' = SubSeq(pairs, n + 1, Len(pairs))
    /\ cur' = [hook |-> StepGetItem(step, mrc), key |-> Head(held)[1],
               values |-> <<>>, emitted |-> 0, over |-> FALSE]
    /\ UNCHANGED <<protoVars, steps, args, mrc, step, input, out,
                   calls, pc, err, jobVars, stderr>>

\* groupby gives out a key and its group, and task(key, values) is called:
\* values = (value for _, value in pairs_for_key), nothing of it taken yet
GroupbyCalls ==
    /\ ran # <<>>
    /\ pc = "body"
    /\ mrc \in {"combiner", "reducer"}
    /\ cur.hook = None
    /\ held # <<>>
    /\ cur.over
    /\ cur' = [hook |-> StepGetItem(step, mrc), key |-> Head(held)[1],
               values |-> <<>>, emitted |-> 0, over |-> FALSE]
    /\ UNCHANGED <<protoVars, steps, args, mrc, step, input, pairs, out,
                   calls, pc, err, jobVars, held, stderr>>

\* groupby's __next__ finds the source at its end
GroupbyDone ==
    /\ ran # <<>>
    /\ pc = "body"
    /\ mrc \in {"combiner", "reducer"}
    /\ cur.hook = None
    /\ held = <<>> \/ ~cur.over
    /\ pairs = <<>>
    /\ pc' = "final"
    /\ held' = <<>>
    /\ cur' = NoCall
    /\ UNCHANGED <<protoVars, steps, args, mrc, step, input, pairs, out,
                   calls, err, jobVars, stderr>>

\* the hook asks values for its next value: the pair groupby holds, or the
\* next pair of the source, which ends the group when its key is another
ValuesNext ==
    /\ ran # <<>>
    /\ pc = "body"
    /\ mrc \in {"combiner", "reducer"}
    /\ cur.hook # None
    /\ cur.emitted = 0
    /\ ~cur.over
    /\ IF held # <<>>
       THEN /\ cur' = [cur EXCEPT !.values = Append(@, Head(held)[2])]
            /\ held' = Tail(held)
            /\ pairs' = pairs
       ELSE IF pairs = <<>>
       THEN /\ cur' = [cur EXCEPT !.over = TRUE]
            /\ UNCHANGED <<held, pairs>>
       ELSE IF Head(pairs)[1] = cur.key
       THEN /\ cur' = [cur EXCEPT !.values = Append(@, Head(pairs)[2])]
            /\ pairs' = Tail(pairs)
            /\ held' = held
       ELSE /\ cur' = [cur EXCEPT !.over = TRUE]
            /\ held' = <<Head(pairs)>>
            /\ pairs' = Tail(pairs)
    /\ UNCHANGED <<protoVars, steps, args, mrc, step, input, out, calls, pc,
                   err, jobVars, stderr>>

\* the hook yields a pair, 'yield k, v' passes it on and write_line(k, v)
\* writes it; a combiner or reducer takes no value after it has yielded
HookYields ==
    /\ ran # <<>>
    /\ pc = "body"
    /\ cur.hook # None
    /\ cur.emitted < Len(Yields(cur))
    /\ LET kv == Yields(cur)[cur.emitted + 1]
       IN  /\ out' = Append(out, kv)
           /\ stdout' = stdout \o write_lines(picked.write, <<kv>>)
    /\ cur' = [cur EXCEPT !.emitted = @ + 1]
    /\ UNCHANGED <<protoVars, steps, args, mrc, step, input, pairs, calls, pc,
                   err, job, options, builds, evals, ran, wire, stdin, held,
                   stderr>>

\* the hook has no more pairs: 'for k, v in ... or ()' ends.  groupby keeps
\* the key of the run and whether its end was seen
HookReturns ==
    /\ ran # <<>>
    /\ pc = "body"
    /\ cur.hook # None
    /\ cur.emitted = Len(Yields(cur))
    /\ calls' = Append(calls, Call(cur.hook, cur.key, cur.values))
    /\ cur' = IF mrc = "mapper"
              THEN NoCall
              ELSE [NoCall EXCEPT !.key = cur.key, !.over = cur.over]
    /\ UNCHANGED <<protoVars, steps, args, mrc, step, input, pairs, out, pc,
                   err, jobVars, held, stderr>>

-----------------------------------------------------------------------------
(* increment_counter *)

\* strings are sequences of characters; group and counter stand for the
\* strings passed in, or for str() of what was passed in
Chars == {"a", ","}

Strings ==
    UNION {[1..n -> Chars] : n \in 0..MaxStr}
        \cup {<<"a", ",", "b">>, <<"c", ",", "d">>}

\* amounts: integers, and one that is not
Amounts == [int : {TRUE}, n : {-1, 1, 5}] \cup {[int |-> FALSE, n |-> 1]}

\* mutation: only the first comma is replaced
replace_first_comma(str) ==
    [i \in 1..Len(str) |->
        IF str[i] = "," /\ \A j \in 1..(i - 1) : str[j] # ","
        THEN ";" ELSE str[i]]

\* str.replace(',', ';')
replace_commas(str) ==
    [i \in 1..Len(str) |-> IF str[i] = "," THEN ";" ELSE str[i]]

\* 'reporter:counter:%s,%s,%d\n' % (group, counter, amount)
counter_line(group, counter, amount) ==
    <<"reporter:counter:">> \o group \o <<",">> \o counter
        \o <<",", ToString(amount), "\n">>

\* what is done to self.stderr
StderrWrite(line) == [op |-> "write", line |-> line]
StderrFlush == [op |-> "flush", line |-> <<>>]

\* increment_counter(group, counter, amount)
IncrementCounter(group, counter, amount) ==
    /\ calls = <<>>
    /\ calls' = <<Call("increment_counter", None,
                       <<group, counter, amount>>)>>
    /\ IF ~amount.int
       THEN /\ err' = "TypeError: amount must be an integer"
            /\ stderr' = stderr
       ELSE /\ err' = err
            /\ stderr' = stderr \o
                   <<StderrWrite(counter_line(replace_commas(group),
                                              replace_commas(counter),
                                              amount.n)),
                     StderrFlush>>
    /\ UNCHANGED <<protoVars, steps, args, mrc, step, input, pairs, out, pc,
                   jobVars, held, cur>>

-----------------------------------------------------------------------------
(* Specifications *)

\* no job: the state of the dispatcher while a part is looked at on its own
JobIdle ==
    /\ job = NoJob
    /\ options = NoOptions
    /\ builds = 0
    /\ evals = [k \in CmdSlots |-> 0]
    /\ ran = <<>>
    /\ wire = "none"
    /\ stdin = <<>>
    /\ stdout = <<>>

SideIdle ==
    /\ held = <<>>
    /\ cur = NoCall
    /\ stderr = <<>>

PhaseIdle ==
    /\ mrc = "none"
    /\ step = NoStep
    /\ input = <<>>
    /\ pairs = <<>>
    /\ out = <<>>
    /\ calls = <<>>
    /\ pc = "idle"
    /\ err = "none"

\* protocol negotiation over every pipeline description
InitProtocols ==
    /\ steps_desc \in StepsDescs
    /\ picked = NotPicked
    /\ steps = <<>>
    /\ args = <<>>
    /\ PhaseIdle
    /\ JobIdle
    /\ SideIdle

NextProtocols ==
    /\ \E step_num \in 0..MaxSteps, step_type \in StepTypes :
           PickProtocols(step_num, step_type)
    /\ UNCHANGED <<jobVars, sideVars>>

SpecProtocols == InitProtocols /\ [][NextProtocols]_vars

\* one phase run of a job
InitPhase ==
    /\ steps \in JobSteps
    /\ args \in ArgLists
    /\ steps_desc = <<>>
    /\ picked = NotPicked
    /\ PhaseIdle
    /\ JobIdle
    /\ SideIdle

PhaseStep ==
    \/ \E ps \in Inputs, step_num \in 0..Len(steps) :
           StartMapPairs(ps, step_num)
    \/ MapperInit
    \/ MapperRaw
    \/ MapperPair
    \/ MapperPairsDone
    \/ MapperFinal
    \/ \E ps \in Inputs, m \in {"combiner", "reducer"},
          step_num \in 0..Len(steps) :
           StartCombineOrReducePairs(ps, m, step_num)
    \/ TaskInit
    \/ TaskGroup
    \/ TaskGroupsDone
    \/ TaskFinal

NextPhase == PhaseStep /\ UNCHANGED <<jobVars, sideVars>>

SpecPhase == InitPhase /\ [][NextPhase]_vars

\* the methods steps() looks at: _JOB_STEP_FUNC_PARAMS + ('spark',)
Registry == FuncSlots \cup {"spark"}

\* jobs that leave steps() alone
DefaultJobs ==
    {DefaultJob(S) : S \in {T \in SUBSET Registry :
                               Cardinality(T) <= MaxOverridden}}

\* pipelines of two streaming steps
TwoStepPipelines ==
    {<<MRStep(Methods({"mapper", "combiner", "reducer"})),
       MRStep(Methods({"mapper", "reducer"}))>>,
     <<MRStep(Methods({"mapper"})), MRStep(Methods({"reducer"}))>>}

\* jobs with a steps() of their own
ExplicitJobs == {ExplicitJob(p) : p \in JobSteps \cup TwoStepPipelines}

\* positional arguments as input paths: files, and '-' among them
SourceLists ==
    ArgLists \cup {<<"-">>, <<"arg1", "-">>, <<"-", "arg1">>, <<"-", "-">>}

\* one call of execute() on a job, from the first line of execute() on
InitJob(jobs, on, step_nums, arglists, wires) ==
    /\ job \in jobs
    /\ options \in {Options(o, n) : o \in on, n \in step_nums}
    /\ args \in arglists
    /\ wire \in wires
    /\ stdin \in StdinLines(wire)
    /\ steps = job_steps(job).steps
    /\ steps_desc = steps_desc_of(steps)
    /\ picked = NotPicked
    /\ PhaseIdle
    /\ builds = 0
    /\ evals = [k \in CmdSlots |-> 0]
    /\ ran = <<>>
    /\ stdout = <<>>
    /\ SideIdle

NextJob ==
    \/ ShowSteps /\ UNCHANGED sideVars
    \/ WrapProtocols /\ UNCHANGED sideVars
    \/ RunMapper /\ UNCHANGED sideVars
    \/ RunCombinerOrReducer /\ UNCHANGED sideVars
    \/ WritePairs /\ UNCHANGED sideVars
    \/ HookRaises /\ UNCHANGED sideVars
    \/ RunSpark /\ UNCHANGED sideVars
    \/ Launcher /\ UNCHANGED sideVars

\* execute() is called once more on the job, with the same options: a new
\* phase, the same job, the same stdout
Again ==
    /\ ran # <<>>
    /\ pc \in {"done", "failed"}
    /\ builds < MaxBuilds
    /\ ran' = <<>>
    /\ picked' = NotPicked
    /\ mrc' = "none"
    /\ step' = NoStep
    /\ input' = <<>>
    /\ pairs' = <<>>
    /\ out' = <<>>
    /\ calls' = <<>>
    /\ pc' = "idle"
    /\ err' = "none"
    /\ UNCHANGED <<steps_desc, steps, args, job, options, builds, evals, wire,
                   stdin, stdout, sideVars>>

\* one call of increment_counter on a job at rest
InitCounter ==
    /\ steps_desc = <<>>
    /\ picked = NotPicked
    /\ steps = <<>>
    /\ args = <<>>
    /\ PhaseIdle
    /\ JobIdle
    /\ SideIdle

NextCounter ==
    \E group \in Strings, counter \in Strings, amount \in Amounts :
        IncrementCounter(group, counter, amount)

SpecCounter == InitCounter /\ [][NextCounter]_vars

\* at most one switch set
OneSwitch == {{}} \cup {{sw} : sw \in Switches}

\* jobs without a steps() of their own, run with one switch
InitSteps ==
    InitJob(DefaultJobs, OneSwitch, {0, 1},
            {a \in ArgLists : Len(a) = 2}, {"input"})

SpecSteps == InitSteps /\ [][NextJob]_vars

\* a few jobs, run with any set of switches
InitExecute ==
    InitJob({ExplicitJob(p) :
               p \in {<<>>, <<SparkStep>>,
                      <<MRStep(Methods({"mapper_raw"}))>>,
                      <<MRStep(Methods((MapperSlots \ {"mapper_raw"})
                                       \cup CombinerSlots
                                       \cup ReducerSlots))>>}},
            SUBSET Switches, {0, 1}, ArgLists, {"input"})

SpecExecute == InitExecute /\ [][NextJob]_vars

\* jobs run with one switch, on two files, time and again
InitAgain ==
    InitJob(DefaultJobs \cup
            {ExplicitJob(p) :
               p \in TwoStepPipelines \cup
                      {<<SparkStep, MRStep(Methods({"mapper"}))>>}},
            OneSwitch, {0}, {a \in ArgLists : Len(a) = 2}, {"input"})

NextAgain ==
    \/ NextJob
    \/ Again

SpecAgain == InitAgain /\ [][NextAgain]_vars

\* one-step jobs run with --mapper, --combiner or --reducer on input in the
\* format the phase reads, so that every pair is told apart by its value
InitPull ==
    /\ InitJob({ExplicitJob(<<MRStep(Methods(S))>>) :
                  S \in {{"mapper"},
                         {"mapper_init", "mapper", "mapper_final"},
                         {"mapper_raw"},
                         {"mapper", "combiner", "reducer"},
                         {"reducer_init", "reducer", "reducer_final"}}},
               {{sw} : sw \in {"run_mapper", "run_combiner", "run_reducer"}},
               {0}, SourceLists, {"input", "internal"})
    /\ LET r == pick_protocol_instances(steps_desc, options.step_num,
                                        StepTypeOf(Branch(options)))
       IN  r.err = "none" => wire = r.read

NextPull ==
    \/ WrapProtocols /\ UNCHANGED sideVars
    \/ RunMapper /\ UNCHANGED sideVars
    \/ RunCombinerOrReducer /\ UNCHANGED sideVars
    \/ Unpulled
    \/ MapperReads
    \/ MapperCalls
    \/ GroupbyReads
    \/ GroupbyCalls
    \/ GroupbyDone
    \/ ValuesNext
    \/ HookYields
    \/ HookReturns

SpecPull == InitPull /\ [][NextPull]_vars

\* jobs with a steps() of their own, run with one switch
InitRun ==
    InitJob(ExplicitJobs, OneSwitch, 0..(MaxSteps - 1), SourceLists,
            {"input", "internal"})

SpecRun == InitRun /\ [][NextJob]_vars

-----------------------------------------------------------------------------
(* Properties of protocol negotiation *)

\* the mapper and reducer phases of type script, read off the descriptions
ScriptPhases(descs) ==
    {p \in (0..(Len(descs) - 1)) \X {"mapper", "reducer"} :
        descs[p[1] + 1][p[2]] = "script"}

\* pipeline order: by step, mapper before reducer within a step
Precedes(p, q) ==
    \/ p[1] < q[1]
    \/ p[1] = q[1] /\ p[2] = "mapper" /\ q[2] = "reducer"

TablePosition(descs, p) ==
    Cardinality({q \in ScriptPhases(descs) : Precedes(q, p)})

LastPosition(descs) == Cardinality(ScriptPhases(descs)) - 1

PickedPhase == <<picked.step_num, picked.step_type>>

OneStepScriptPipeline ==
    <<[type |-> "streaming", mapper |-> "script", reducer |-> "script"]>>

\* C1: a mapper or reducer request that is a script phase reads 'input'
\* exactly when it is at position 0 of the script-phase table and 'internal'
\* otherwise, and writes 'output' exactly when it is at the last position and
\* 'internal' otherwise; in the 1-step mapper+reducer script pipeline the
\* mapper gets (input, internal) and the reducer (internal, output).
C1_RolesFollowTablePosition ==
    /\ PickedPhase \in ScriptPhases(steps_desc) =>
          LET pos == TablePosition(steps_desc, PickedPhase)
          IN  /\ picked.err = "none"
              /\ picked.read = IF pos = 0 THEN "input" ELSE "internal"
              /\ picked.write = IF pos = LastPosition(steps_desc)
                                THEN "output" ELSE "internal"
    /\ (steps_desc = OneStepScriptPipeline /\ PickedPhase = <<0, "mapper">>)
          => picked.read = "input" /\ picked.write = "internal"
    /\ (steps_desc = OneStepScriptPipeline /\ PickedPhase = <<0, "reducer">>)
          => picked.read = "internal" /\ picked.write = "output"

C1_Witness ==
    /\ steps_desc = OneStepScriptPipeline
    /\ PickedPhase = <<0, "reducer">>
    /\ picked.read = "internal"
    /\ picked.write = "output"

\* C2: the combiner of a step whose mapper is a script phase reads and writes
\* one and the same role, the role the mapper of that step is resolved to
\* write.
C2_CombinerFollowsMapperWrite ==
    (/\ picked.step_type = "combiner"
     /\ <<picked.step_num, "mapper">> \in ScriptPhases(steps_desc))
    => /\ picked.err = "none"
       /\ picked.read = picked.write
       /\ LET m == pick_protocol_instances(steps_desc, picked.step_num,
                                           "mapper")
          IN  m.err = "none" /\ picked.write = m.write

\* a combiner behind the last script phase of a longer pipeline
C2_Witness ==
    /\ picked.step_type = "combiner"
    /\ <<picked.step_num, "mapper">> \in ScriptPhases(steps_desc)
    /\ Cardinality(ScriptPhases(steps_desc)) >= 2
    /\ picked.read = "output"
    /\ picked.write = "output"

ReadersOf(role) ==
    {p \in ScriptPhases(steps_desc) :
        pick_protocol_instances(steps_desc, p[1], p[2]).read = role}

WritersOf(role) ==
    {p \in ScriptPhases(steps_desc) :
        pick_protocol_instances(steps_desc, p[1], p[2]).write = role}

\* C3: in a pipeline with at least one script phase exactly one mapper or
\* reducer script phase reads 'input', exactly one writes 'output', and every
\* other role resolved for such a phase is 'internal'.
C3_OneInputOneOutput ==
    ScriptPhases(steps_desc) # {} =>
        /\ Cardinality(ReadersOf("input")) = 1
        /\ Cardinality(WritersOf("output")) = 1
        /\ ReadersOf("input") \cup ReadersOf("internal")
               = ScriptPhases(steps_desc)
        /\ WritersOf("output") \cup WritersOf("internal")
               = ScriptPhases(steps_desc)
        /\ PickedPhase \in ScriptPhases(steps_desc) =>
              /\ picked.read = "input" <=> PickedPhase \in ReadersOf("input")
              /\ picked.write = "output"
                     <=> PickedPhase \in WritersOf("output")
              /\ picked.read \in {"input", "internal"}
              /\ picked.write \in {"internal", "output"}

\* an interior phase of a pipeline with three script phases or more
C3_Witness ==
    /\ Cardinality(ScriptPhases(steps_desc)) >= 3
    /\ PickedPhase \in ScriptPhases(steps_desc)
    /\ picked.read = "internal"
    /\ picked.write = "internal"

\* C8: a mapper or reducer request that is not in the script-phase table (an
\* external command, an absent phase, a phase of a spark step, a step that
\* does not exist) fails and returns no role pair.
C8_NonScriptRequestFails ==
    (/\ picked.step_type \in {"mapper", "reducer"}
     /\ PickedPhase \notin ScriptPhases(steps_desc))
    => /\ picked.err = "ValueError: non-script step"
       /\ picked.read = "none"
       /\ picked.write = "none"

\* a command mapper next to a script reducer
C8_Witness ==
    /\ picked.step_type = "mapper"
    /\ picked.step_num < Len(steps_desc)
    /\ steps_desc[picked.step_num + 1].mapper = "command"
    /\ steps_desc[picked.step_num + 1].reducer = "script"
    /\ picked.err = "ValueError: non-script step"

\* C9: a combiner resolved for a step whose mapper is not a script phase does
\* not fail, and reads and writes the raw pass-through role.
C9_CombinerOfNonScriptMapperIsRaw ==
    (/\ picked.step_type = "combiner"
     /\ <<picked.step_num, "mapper">> \notin ScriptPhases(steps_desc))
    => /\ picked.err = "none"
       /\ picked.read = "raw"
       /\ picked.write = "raw"

\* the combiner of a command mapper in a pipeline that has script phases
C9_Witness ==
    /\ picked.step_type = "combiner"
    /\ picked.step_num < Len(steps_desc)
    /\ steps_desc[picked.step_num + 1].mapper = "command"
    /\ ScriptPhases(steps_desc) # {}
    /\ picked.read = "raw"
    /\ picked.write = "raw"

ThreeStepScriptPipeline ==
    <<[type |-> "streaming", mapper |-> "script", reducer |-> "absent"],
      [type |-> "streaming", mapper |-> "script", reducer |-> "script"],
      [type |-> "streaming", mapper |-> "absent", reducer |-> "script"]>>

\* C10: in the 3-step all-script pipeline (mapper; mapper and reducer;
\* reducer) mapper@0 gets (input, internal), reducer@1 (internal, internal),
\* reducer@2 (internal, output), and the combiner of step 1 gets on both sides
\* the role mapper@1 writes.
C10_ThreeStepPipeline ==
    steps_desc = ThreeStepScriptPipeline =>
        /\ PickedPhase = <<0, "mapper">>
              => picked.read = "input" /\ picked.write = "internal"
        /\ PickedPhase = <<1, "reducer">>
              => picked.read = "internal" /\ picked.write = "internal"
        /\ PickedPhase = <<2, "reducer">>
              => picked.read = "internal" /\ picked.write = "output"
        /\ PickedPhase = <<1, "combiner">>
              => /\ picked.read = picked.write
                 /\ picked.write = "internal"
                 /\ picked.write =
                      pick_protocol_instances(steps_desc, 1, "mapper").write

C10_Witness ==
    /\ steps_desc = ThreeStepScriptPipeline
    /\ PickedPhase = <<1, "combiner">>
    /\ picked.err = "none"
    /\ picked.read = "internal"

-----------------------------------------------------------------------------
(* Properties of phase execution *)

IsBodyCall(c) == c.hook = mrc

\* the invocations of the combiner or reducer itself, in order
BodyCalls == SelectSeq(calls, IsBodyCall)

\* the pairs a sequence of body invocations stands for, run after run
RECURSIVE RunPairs(_)
RunPairs(cs) ==
    IF cs = <<>> THEN <<>>
    ELSE [i \in 1..Len(Head(cs).values) |->
             <<Head(cs).key, Head(cs).values[i]>>] \o RunPairs(Tail(cs))

ExampleInput == <<<<"A", 1>>, <<"A", 2>>, <<"B", 3>>, <<"A", 4>>>>

SlotYields(s, slot) ==
    IF StepGetItem(s, slot) # None
    THEN InitFinalYields(StepGetItem(s, slot)) ELSE <<>>

SlotCalls(s, slot) ==
    IF StepGetItem(s, slot) # None
    THEN <<Call(StepGetItem(s, slot), None, <<>>)>> ELSE <<>>

RECURSIVE PerPairYields(_, _)
PerPairYields(hook, ps) ==
    IF ps = <<>> THEN <<>>
    ELSE MapperYields(hook, Head(ps)[1], Head(ps)[2])
             \o PerPairYields(hook, Tail(ps))

PerPairCalls(hook, ps) ==
    [i \in 1..Len(ps) |-> Call(hook, ps[i][1], <<ps[i][2]>>)]

\* C5: a mapper phase without a raw hook yields what mapper_init yields (if
\* there is one), then for each input pair in input order what the per-pair
\* hook yields for it, then what mapper_final yields (if there is one);
\* mapper_init runs once before every per-pair call and mapper_final once
\* after the last.
C5_MapperOutputOrder ==
    (mrc = "mapper" /\ pc = "done" /\ StepGetItem(step, "mapper_raw") = None)
    => LET mapper == StepGetItem(step, "mapper")
       IN  /\ out = SlotYields(step, "mapper_init")
                      \o PerPairYields(mapper, input)
                      \o SlotYields(step, "mapper_final")
           /\ calls = SlotCalls(step, "mapper_init")
                        \o PerPairCalls(mapper, input)
                        \o SlotCalls(step, "mapper_final")

\* all three hooks, an input on which the mapper yields 1, 2 and 0 pairs
C5_Witness ==
    /\ mrc = "mapper"
    /\ pc = "done"
    /\ step = MRStep(Methods({"mapper", "mapper_init", "mapper_final"}))
    /\ Len(input) = 3
    /\ Len(out) = 5
    /\ Len(calls) = 5

\* a step that gives the phase an init and a final hook and nothing else
OnlyInitAndFinal(s, m) ==
    /\ s # NoStep
    /\ s.hooks[m] = None
    /\ s.hooks[SlotName(m, "_init")] # None
    /\ s.hooks[SlotName(m, "_final")] # None
    /\ m = "mapper" => s.hooks["mapper_raw"] = None

PhaseOver == pc \in {"done", "failed"}

\* C6 as stated: a mapper, combiner or reducer phase that has only init and
\* final hooks yields what init yields followed by what final yields, for
\* any input.
C6_AsStated ==
    (mrc \in StepTypes /\ PhaseOver /\ OnlyInitAndFinal(step, mrc))
    => /\ pc = "done"
       /\ out = SlotYields(step, SlotName(mrc, "_init"))
                  \o SlotYields(step, SlotName(mrc, "_final"))

\* C6, amended: a mapper phase that has only init and final hooks, run on
\* the empty input, yields what init yields followed by what final yields; a
\* combiner or reducer phase that has only init and final hooks fails and
\* yields nothing, whatever the input.
C6_InitThenFinal ==
    /\ (mrc = "mapper" /\ PhaseOver /\ OnlyInitAndFinal(step, mrc)
            /\ input = <<>>)
       => /\ pc = "done"
          /\ out = SlotYields(step, "mapper_init")
                     \o SlotYields(step, "mapper_final")
    /\ (mrc \in {"combiner", "reducer"} /\ PhaseOver
            /\ OnlyInitAndFinal(step, mrc))
       => /\ pc = "failed"
          /\ out = <<>>

C6_Witness ==
    /\ mrc = "mapper"
    /\ pc = "done"
    /\ OnlyInitAndFinal(step, "mapper")
    /\ input = <<>>
    /\ out = <<<<"mapper_init", 0>>, <<"mapper_final", 0>>>>

\* C7: a combiner or reducer phase run on a step that has no combiner or
\* reducer fails with a ValueError before the init hook is called, before a
\* pair of the input is consumed and before a pair is yielded.
C7_NoBodyFailsFirst ==
    (/\ mrc \in {"combiner", "reducer"}
     /\ pc # "idle"
     /\ step # NoStep
     /\ step.hooks[mrc] = None)
    => /\ pc = "failed"
       /\ err = "ValueError: No task in step"
       /\ calls = <<>>
       /\ pairs = input
       /\ out = <<>>

\* the step has an init hook for the phase and there is input to consume
C7_Witness ==
    /\ mrc = "combiner"
    /\ pc = "failed"
    /\ step = MRStep(Methods({"combiner_init", "combiner_final"}))
    /\ Len(input) = 2
    /\ err = "ValueError: No task in step"

IsRawCall(c) == c.hook = "mapper_raw"

IsPerPairCall(c) == c.hook \in {"mapper", IDENTITY_MAPPER}

\* C11: in a mapper phase with a raw hook the per-pair hook is never called
\* and the input pairs are never pulled; with 0, 1 or 3 positional arguments
\* the phase fails with 'Wrong number of args' and mapper_raw is not called,
\* with exactly 2 mapper_raw is called once with the two of them, in order.
C11_RawMapperArity ==
    (/\ mrc = "mapper"
     /\ step.hooks["mapper_raw"] # None
     /\ pc \in {"body", "final", "done", "failed"})
    => /\ pairs = input
       /\ SelectSeq(calls, IsPerPairCall) = <<>>
       /\ Len(args) # 2 =>
             /\ SelectSeq(calls, IsRawCall) = <<>>
             /\ pc \in {"body", "failed"}
             /\ pc = "failed" => err = "ValueError: Wrong number of args"
       /\ Len(args) = 2 =>
             /\ pc # "failed"
             /\ pc = "body" => SelectSeq(calls, IsRawCall) = <<>>
             /\ pc \in {"final", "done"} =>
                   SelectSeq(calls, IsRawCall) =
                       <<Call("mapper_raw", None, <<args[1], args[2]>>)>>

\* three arguments, a per-pair hook next to the raw one, input to be had
C11_Witness ==
    /\ mrc = "mapper"
    /\ step.hooks["mapper_raw"] # None
    /\ step.hooks["mapper"] # None
    /\ Len(args) = 3
    /\ Len(input) = 2
    /\ pc = "failed"
    /\ err = "ValueError: Wrong number of args"

-----------------------------------------------------------------------------
(* Properties of steps() *)

MixError == "ValueError: Can't mix spark() and streaming functions"

\* execute() has gone into a branch of its own, not the launcher's
Dispatched == ran # <<>> /\ ran # <<"launcher">>

\* C12: a job without steps() of its own that redefines spark() together
\* with any other method of the registry fails in steps() with the mixing
\* error, before any *_cmd or *_pre_filter method is called, any hook run or
\* anything written; a job that redefines spark() alone has the pipeline of
\* exactly one spark step.
C12_SparkAloneOrError ==
    (job.kind = "default" /\ "spark" \in job.overridden) =>
        IF job.overridden # {"spark"}
        THEN /\ job_steps(job).err = MixError
             /\ Dispatched =>
                   /\ pc = "failed"
                   /\ err = MixError
                   /\ builds = 1
                   /\ \A k \in CmdSlots : evals[k] = 0
                   /\ calls = <<>>
                   /\ stdout = <<>>
        ELSE /\ job_steps(job).err = "none"
             /\ job_steps(job).steps = <<SparkStep>>
             /\ \A k \in CmdSlots : evals[k] = 0
             /\ (ran = <<"show_steps">>) =>
                   stdout = <<steps_json(<<SparkStepDesc>>), Newline>>
             /\ err # MixError

\* the case of C12: spark() and mapper_cmd() redefined, run_mapper asked for
C12_Witness ==
    /\ job = DefaultJob({"spark", "mapper_cmd"})
    /\ ran = <<"run_mapper">>
    /\ pc = "failed"
    /\ err = MixError

\* C13: a job without steps() of its own that leaves spark() alone has the
\* empty pipeline when it redefines nothing, and otherwise one MRStep whose
\* slots are exactly the redefined methods, each redefined *_cmd and
\* *_pre_filter slot holding the string its method returned, every other
\* slot None; only the redefined *_cmd / *_pre_filter methods are called.
C13_OneStepOfRedefinedMethods ==
    (job.kind = "default" /\ "spark" \notin job.overridden) =>
        /\ job_steps(job).err = "none"
        /\ steps = job_steps(job).steps
        /\ job.overridden = {} => steps = <<>>
        /\ job.overridden # {} =>
              /\ Len(steps) = 1
              /\ steps[1].class = "MRStep"
              /\ \A k \in FuncSlots :
                    steps[1].hooks[k] =
                        IF k \notin job.overridden THEN None
                        ELSE IF k \in CmdSlots THEN CmdString(k)
                        ELSE k
        /\ \A k \in CmdSlots : (evals[k] > 0) =>
                                   k \in job.overridden /\ Dispatched
        /\ ran = <<"show_steps">> =>
              stdout = <<steps_json(steps_desc_of(steps)), Newline>>

\* the case of C13: mapper() and reducer_cmd() redefined, the steps shown
C13_Witness ==
    /\ job = DefaultJob({"mapper", "reducer_cmd"})
    /\ ran = <<"show_steps">>
    /\ pc = "done"
    /\ steps[1].hooks["reducer_cmd"] = "reducer_cmd()"
    /\ steps[1].hooks["mapper"] = "mapper"
    /\ evals["reducer_cmd"] = 1

\* how often the operations so far have called self.steps(): once in
\* show_steps, once in run_spark, once in _wrap_protocols and once more when
\* the phase of run_mapper, run_combiner or run_reducer starts
StepsCalls ==
    (IF Dispatched THEN 1 ELSE 0) + (IF mrc \in StepTypes THEN 1 ELSE 0)

\* C14 as stated: the pipeline is built at most once and no *_cmd or
\* *_pre_filter method is called more than once.
C14_AsStated ==
    /\ builds <= 1
    /\ \A k \in CmdSlots : evals[k] <= 1

\* C14: every operation builds the pipeline anew, run_mapper, run_combiner
\* and run_reducer twice (for the protocols and for the phase); each build
\* of a job without steps() of its own that does not fail with the mixing
\* error calls each redefined *_cmd / *_pre_filter method once, so each is
\* called as often as the pipeline is built.
C14_RebuiltByEveryOperation ==
    /\ builds = StepsCalls
    /\ \A k \in CmdSlots :
          evals[k] = IF /\ job.kind = "default"
                        /\ k \in job.overridden
                        /\ "spark" \notin job.overridden
                     THEN builds ELSE 0

\* the case of C14: run_mapper on a job with mapper() and reducer_cmd()
C14_Witness ==
    /\ job = DefaultJob({"mapper", "reducer_cmd"})
    /\ ran = <<"run_mapper">>
    /\ pc = "done"
    /\ builds = 2
    /\ evals["reducer_cmd"] = 2

-----------------------------------------------------------------------------
(* Properties of the dispatcher *)

RunBranches == {"run_mapper", "run_combiner", "run_reducer", "run_spark"}

\* the class of step a branch of execute() asks _get_step for
ExpectedClass(branch) ==
    IF branch = "run_spark" THEN "SparkStep" ELSE "MRStep"

\* --step-num is outside the pipeline, or names a step of the other class
BadRequest ==
    /\ Branch(options) \in RunBranches
    /\ \/ ~(0 <= options.step_num /\ options.step_num < Len(steps))
       \/ steps[options.step_num + 1].class # ExpectedClass(Branch(options))

GetStepErrors == {"ValueError: Out-of-range step", "TypeError: wrong step class"}

\* C15 as stated: every run_* operation asked for a step outside the
\* pipeline or of the other class ends with one of _get_step's errors and
\* without a hook called.
C15_AsStated ==
    (BadRequest /\ Dispatched /\ pc \in {"done", "failed"}) =>
        /\ pc = "failed"
        /\ err \in GetStepErrors
        /\ calls = <<>>

\* C15: a run_* operation asked for a step outside the pipeline or of the
\* other class calls no hook, consumes no input and writes nothing.
\* run_combiner and run_spark fail in _get_step, with the out-of-range error
\* or the wrong-class error; run_mapper and run_reducer fail before that, in
\* protocol resolution, with the non-script-step error.
C15_BadRequestFails ==
    (BadRequest /\ Dispatched) =>
        /\ calls = <<>>
        /\ out = <<>>
        /\ stdout = <<>>
        /\ pairs = input
        /\ pc \in {"idle", "failed"}
        /\ pc = "idle" => /\ ran = <<"run_combiner">>
                          /\ picked # NotPicked
                          /\ mrc = "none"
        /\ pc = "failed" =>
              err = IF Branch(options) \in {"run_mapper", "run_reducer"}
                    THEN "ValueError: non-script step"
                    ELSE IF ~(0 <= options.step_num
                              /\ options.step_num < Len(steps))
                    THEN "ValueError: Out-of-range step"
                    ELSE "TypeError: wrong step class"

\* the case of C15: run_combiner asked for a spark step, after _get_step
C15_Witness ==
    /\ ran = <<"run_combiner">>
    /\ options.step_num = 0
    /\ Len(steps) = 2
    /\ steps[1] = SparkStep
    /\ mrc = "combiner"
    /\ pc = "failed"
    /\ err = "TypeError: wrong step class"

\* the hooks a phase may call
HooksOf(m) ==
    {m, SlotName(m, "_init"), SlotName(m, "_final")} \cup
    (IF m = "mapper" THEN {"mapper_raw", IDENTITY_MAPPER} ELSE {})

\* the hooks in the call log
Called == {calls[i].hook : i \in 1..Len(calls)}

\* the formats of what was written to stdout
Written == {stdout[i].fmt : i \in 1..Len(stdout)}

\* C16: one call of execute() takes one branch, the first in the order
\* show_steps, run_mapper, run_combiner, run_reducer, run_spark whose switch
\* is set, and the effects of the others do not occur: the steps are
\* written by show_steps alone, and only the hooks of the phase that was
\* asked for are called.
C16_OneBranch ==
    /\ Len(ran) <= 1
    /\ ran # <<>> =>
          /\ ran = <<Branch(options)>>
          /\ ran # <<"show_steps">> => "json" \notin Written
          /\ ran = <<"show_steps">> =>
                Called = {} /\ mrc = "none" /\ Written \subseteq {"json", "none"}
          /\ ran = <<"launcher">> =>
                Called = {} /\ mrc = "none" /\ stdout = <<>>
          /\ ran = <<"run_spark">> =>
                Called \subseteq {"spark"} /\ stdout = <<>>
          /\ \A m \in StepTypes :
                ran = <<"run_" \o m>> =>
                    Called \subseteq HooksOf(m) /\ mrc \in {"none", m}

\* the case of C16: three switches set at once, show_steps taken
C16_Witness ==
    /\ options.show_steps /\ options.run_mapper /\ options.run_spark
    /\ steps # <<>>
    /\ steps[1].hooks["mapper"] # None
    /\ ran = <<"show_steps">>
    /\ pc = "done"
    /\ stdout # <<>>

\* C17: run_spark on a spark step calls spark() once, with the two
\* positional arguments in order, when there are exactly two, and fails with
\* the arity error without calling it when not; either way no protocol is
\* picked, no input is read and nothing is written.
C17_SparkArity ==
    (/\ ran = <<"run_spark">>
     /\ 0 <= options.step_num /\ options.step_num < Len(steps)
     /\ steps[options.step_num + 1].class = "SparkStep") =>
        /\ picked = NotPicked
        /\ input = <<>> /\ pairs = <<>>
        /\ out = <<>> /\ stdout = <<>>
        /\ IF Len(args) = 2
           THEN /\ pc = "done"
                /\ calls = <<Call("spark", None, <<args[1], args[2]>>)>>
           ELSE /\ pc = "failed"
                /\ err = "ValueError: Wrong number of args"
                /\ calls = <<>>

\* the case of C17: run_spark with three arguments
C17_Witness ==
    /\ ran = <<"run_spark">>
    /\ steps = <<SparkStep>>
    /\ options.step_num = 0
    /\ Len(args) = 3
    /\ pc = "failed"
    /\ err = "ValueError: Wrong number of args"

-----------------------------------------------------------------------------
(* Properties of reading and writing *)

\* the input paths, and the place of the first '-' among them
Sources == IF args = <<>> THEN <<"-">> ELSE args

FirstStdin ==
    IF \E i \in 1..Len(Sources) : Sources[i] = "-"
    THEN CHOOSE i \in 1..Len(Sources) :
             /\ Sources[i] = "-"
             /\ \A j \in 1..(i - 1) : Sources[j] # "-"
    ELSE 0

\* the lines the i-th source gives: stdin is read to its end where the first
\* '-' stands
SourceLines(i) ==
    IF Sources[i] = "-"
    THEN IF i = FirstStdin THEN stdin ELSE <<>>
    ELSE FileLines(Sources[i])

\* the lines of the first n sources, in order
RECURSIVE SourcesUpTo(_)
SourcesUpTo(n) ==
    IF n = 0 THEN <<>> ELSE SourcesUpTo(n - 1) \o SourceLines(n)

AllLines == SourcesUpTo(Len(Sources))

\* a line without its terminator: LF, or CR LF
StripTerminator(line) ==
    LET t == line.tail
        n == Len(t)
    IN  IF n >= 2 /\ t[n] = LF /\ t[n - 1] = CR
        THEN [line EXCEPT !.tail = SubSeq(t, 1, n - 2)]
        ELSE IF n >= 1 /\ t[n] = LF
        THEN [line EXCEPT !.tail = SubSeq(t, 1, n - 1)]
        ELSE line

\* a line without any of the CR and LF bytes at its end
StripAll(line) == Bytes(line.fmt, line.key, line.value, <<>>)

\* the roles of the running phase, from its place in the table of script
\* phases
ReadRole ==
    IF picked.step_type = "combiner"
    THEN IF <<picked.step_num, "mapper">> \notin ScriptPhases(steps_desc)
         THEN "raw"
         ELSE IF TablePosition(steps_desc, <<picked.step_num, "mapper">>)
                     = LastPosition(steps_desc)
              THEN "output" ELSE "internal"
    ELSE IF TablePosition(steps_desc, PickedPhase) = 0
         THEN "input" ELSE "internal"

WriteRole ==
    IF picked.step_type = "combiner"
    THEN ReadRole
    ELSE IF TablePosition(steps_desc, PickedPhase) = LastPosition(steps_desc)
         THEN "output" ELSE "internal"

\* a run_mapper, run_combiner or run_reducer whose phase has started, past
\* its own checks
PhaseRuns ==
    /\ ran \in {<<"run_mapper">>, <<"run_combiner">>, <<"run_reducer">>}
    /\ mrc \in StepTypes
    /\ pc # "failed" \/ calls # <<>>

\* stdout holds, pair by pair of out, the pair in the protocol of the write
\* role and one newline
SinkFollowsOut ==
    /\ Len(stdout) = 2 * Len(out)
    /\ \A i \in 1..Len(out) :
          /\ stdout[2 * i - 1] = Write(WriteRole, out[i][1], out[i][2])
          /\ stdout[2 * i] = Newline

-----------------------------------------------------------------------------
(* Properties of failing hooks *)

IsPrefix(a, b) == Len(a) <= Len(b) /\ SubSeq(b, 1, Len(a)) = a

\* the errors the code itself raises
OwnErrors ==
    GetStepErrors \cup {"none", "ValueError: non-script step",
                        "ValueError: No task in step",
                        "ValueError: Wrong number of args", MixError}

\* a hook of the running phase has raised
HookFailed == pc = "failed" /\ err \notin OwnErrors

\* what holds once a hook has raised: the error is that of the hook called
\* last, the pairs yielded up to then are in stdout, and the final hook was
\* not called unless it is the one that raised
AfterHookFailure ==
    HookFailed =>
        /\ calls # <<>>
        /\ err = HookError(calls[Len(calls)].hook)
        /\ \A i \in 1..(Len(calls) - 1) :
              calls[i].hook # SlotName(mrc, "_final")
        /\ SinkFollowsOut

\* what every step keeps: calls, yielded pairs and written bytes are only
\* added to, and a failed phase takes no further step
NothingRetracted ==
    /\ pc # "failed"
    /\ IsPrefix(calls, calls')
    /\ IsPrefix(out, out')
    /\ IsPrefix(stdout, stdout')

\* C19: when a hook (init, per-pair or body, raw, final) raises, the phase
\* ends with the hook's own exception, the pairs yielded before it are
\* written to stdout in order and stay there, no other hook is called
\* afterwards (the final hook in particular), and the phase is not run again.
C19_HookFailurePropagates ==
    []AfterHookFailure /\ [][NothingRetracted]_vars

\* the case of C19: mapper() raises after pairs were written, with a
\* mapper_final that is never called
C19_Witness ==
    /\ ran = <<"run_mapper">>
    /\ step.hooks["mapper_final"] # None
    /\ pc = "failed"
    /\ err = HookError("mapper")
    /\ Len(calls) >= 3
    /\ out # <<>>
    /\ Len(stdout) = 2 * Len(out)
    /\ pairs # <<>>

-----------------------------------------------------------------------------
(* Properties of pipelines from the job's own steps() *)

\* a spark step together with a streaming step that has a hook
Mixed(p) ==
    /\ \E i \in 1..Len(p) : p[i].class = "SparkStep"
    /\ \E i \in 1..Len(p) :
          /\ p[i].class = "MRStep"
          /\ \E k \in FuncSlots : p[i].hooks[k] # None

\* the step --step-num names is in the pipeline and of the given class
Names(class) ==
    /\ 0 <= options.step_num /\ options.step_num < Len(steps)
    /\ steps[options.step_num + 1].class = class

\* C20 as stated: no operation on a job whose own steps() mixes a spark
\* step with a streaming step gets to its end, calls a hook or writes
\* anything.
C20_AsStated ==
    (/\ job.kind = "explicit"
     /\ Mixed(job.pipeline)
     /\ Dispatched) =>
        /\ pc # "done"
        /\ calls = <<>>
        /\ stdout = <<>>

\* C20: a pipeline from the job's own steps() is used as it is, a spark step
\* next to streaming steps included: show_steps lists every step, run_spark
\* on the spark step calls spark(), and run_mapper, run_combiner and
\* run_reducer on a streaming step run the hooks of that step; the mixing
\* error is never raised.
C20_MixedPipelineUsedVerbatim ==
    (job.kind = "explicit" /\ Mixed(job.pipeline)) =>
        /\ steps = job.pipeline
        /\ err # MixError
        /\ ran = <<"show_steps">> =>
              /\ pc = "done"
              /\ stdout = <<steps_json([i \in 1..Len(job.pipeline) |->
                                           description(job.pipeline[i])]),
                            Newline>>
        /\ (ran = <<"run_spark">> /\ Names("SparkStep") /\ Len(args) = 2) =>
              /\ pc = "done"
              /\ calls = <<Call("spark", None, <<args[1], args[2]>>)>>
        /\ (PhaseRuns /\ Names("MRStep")) =>
              /\ step = job.pipeline[options.step_num + 1]
              /\ Called \subseteq HooksOf(mrc)
              /\ err \notin GetStepErrors

\* the case of C20: the reducer of the streaming step that follows a spark
\* step has run to its end
C20_Witness ==
    /\ job.kind = "explicit"
    /\ Len(job.pipeline) = 2
    /\ job.pipeline[1] = SparkStep
    /\ job.pipeline[2].hooks["reducer"] # None
    /\ ran = <<"run_reducer">>
    /\ options.step_num = 1
    /\ pc = "done"
    /\ Len(calls) >= 2
    /\ stdout # <<>>

-----------------------------------------------------------------------------
(* Properties of producers and consumers *)

\* the entry of the script-phase table right after p
NextInTable(p) ==
    {q \in ScriptPhases(steps_desc) :
        TablePosition(steps_desc, q) = TablePosition(steps_desc, p) + 1}

\* C24: the combiner of a step whose mapper and reducer are both script
\* phases writes the role the reducer of that step reads, 'internal'; and
\* whatever script phase is resolved, the role it writes is the role the
\* next entry of the script-phase table reads.
C24_ProducerAndConsumerAgree ==
    /\ (/\ picked.step_type = "combiner"
        /\ <<picked.step_num, "mapper">> \in ScriptPhases(steps_desc)
        /\ <<picked.step_num, "reducer">> \in ScriptPhases(steps_desc)) =>
           /\ picked.err = "none"
           /\ picked.write = "internal"
           /\ pick_protocol_instances(steps_desc, picked.step_num,
                                      "reducer").read = "internal"
    /\ (/\ picked.step_type \in {"mapper", "reducer"}
        /\ PickedPhase \in ScriptPhases(steps_desc)) =>
           \A q \in NextInTable(PickedPhase) :
               /\ picked.err = "none"
               /\ picked.write = "internal"
               /\ pick_protocol_instances(steps_desc, q[1], q[2]).read
                      = picked.write

\* the case of C24: the combiner of the last step of an all-script pipeline
C24_Witness ==
    /\ Len(steps_desc) = 2
    /\ \A i \in 1..2 : steps_desc[i].mapper = "script"
                       /\ steps_desc[i].reducer = "script"
    /\ PickedPhase = <<1, "combiner">>
    /\ picked.write = "internal"
    /\ picked.read = "internal"

-----------------------------------------------------------------------------
(* Properties of the order of execute() *)

\* the switches that are set
Selected == {sw \in Switches : options[sw]}

\* the place of a switch in the order of execute()
Priority(sw) ==
    CASE sw = "show_steps" -> 1
      [] sw = "run_mapper" -> 2
      [] sw = "run_combiner" -> 3
      [] sw = "run_reducer" -> 4
      [] sw = "run_spark" -> 5

\* C25: execute() takes the branch of the set switch that comes first in
\* the order show_steps, run_mapper, run_combiner, run_reducer, run_spark,
\* and that branch alone; with no switch set it takes none of them and goes
\* to the launcher.
C25_FixedPriority ==
    ran # <<>> =>
        /\ Len(ran) = 1
        /\ Selected = {} =>
              /\ ran = <<"launcher">>
              /\ calls = <<>> /\ stdout = <<>> /\ picked = NotPicked
              /\ builds = 0
        /\ Selected # {} =>
              /\ ran[1] \in Selected
              /\ \A sw \in Selected : Priority(ran[1]) <= Priority(sw)
              /\ ran[1] = "show_steps" => picked = NotPicked /\ calls = <<>>
              /\ ran[1] # "show_steps" => "json" \notin Written
              /\ ran[1] = "run_spark" => picked = NotPicked
              /\ ran[1] \in {"run_mapper", "run_combiner", "run_reducer"} =>
                    /\ "spark" \notin Called
                    /\ picked # NotPicked =>
                          picked.step_type = StepTypeOf(ran[1])

\* the case of C25: run_combiner, run_reducer and run_spark set, the
\* combiner run to its end
C25_Witness ==
    /\ Selected = {"run_combiner", "run_reducer", "run_spark"}
    /\ ran = <<"run_combiner">>
    /\ mrc = "combiner"
    /\ pc = "done"
    /\ calls # <<>>

-----------------------------------------------------------------------------
(* Properties of the order of run_mapper's checks *)

\* --step-num names no step, or a step whose mapper is not a script phase
NoScriptMapper ==
    \/ ~(0 <= options.step_num /\ options.step_num < Len(steps_desc))
    \/ steps_desc[options.step_num + 1].mapper # "script"

\* C27: in run_mapper on a step with mapper_init and mapper_raw, a wrong
\* number of arguments is found only after mapper_init has run: at the arity
\* error mapper_init has been called and what it yielded is written;
\* run_mapper on a step out of range or without a script mapper fails before
\* the phase starts, with no hook called, no input taken and nothing
\* written.
C27_ArityAfterInitResolutionBefore ==
    /\ (/\ ran = <<"run_mapper">>
        /\ mrc = "mapper"
        /\ step.hooks["mapper_init"] # None
        /\ step.hooks["mapper_raw"] # None
        /\ Len(args) # 2) =>
           /\ pc \in {"init", "body", "failed"}
           /\ pc = "init" => calls = <<>> /\ err = "none"
           /\ pc = "failed" =>
                 err \in {"ValueError: Wrong number of args",
                          HookError("mapper_init")}
           /\ err = "ValueError: Wrong number of args" =>
                 /\ calls = <<Call("mapper_init", None, <<>>)>>
                 /\ out = InitFinalYields("mapper_init")
                 /\ stdout = write_lines(picked.write, out)
                 /\ stdout # <<>>
    /\ (ran = <<"run_mapper">> /\ NoScriptMapper) =>
           /\ pc = "failed"
           /\ err = "ValueError: non-script step"
           /\ mrc = "none"
           /\ calls = <<>>
           /\ input = <<>> /\ pairs = <<>>
           /\ out = <<>> /\ stdout = <<>>

\* the case of C27: mapper_init and mapper_raw, three arguments, failed
C27_Witness ==
    /\ ran = <<"run_mapper">>
    /\ step.hooks["mapper_init"] # None
    /\ step.hooks["mapper_raw"] # None
    /\ Len(args) = 3
    /\ pc = "failed"
    /\ err = "ValueError: Wrong number of args"
    /\ Len(calls) = 1
    /\ Len(stdout) = 2

-----------------------------------------------------------------------------
(* Properties of show_steps *)

\* what one show_steps of the job writes: the descriptions of its steps,
\* one per step and in their order, and one newline
ShownOnce ==
    <<steps_json([i \in 1..Len(steps) |-> description(steps[i])]), Newline>>

-----------------------------------------------------------------------------
(* Properties of increment_counter *)

\* the arguments of the one call of increment_counter
CounterArgs == calls[1].values

\* how many commas a line has
Commas(line) == Cardinality({i \in 1..Len(line) : line[i] = ","})

\* str with a semicolon wherever it has a comma
Semicolons(str, res) ==
    /\ Len(res) = Len(str)
    /\ \A i \in 1..Len(str) :
          res[i] = IF str[i] = "," THEN ";" ELSE str[i]

\* C22: increment_counter with an integer amount writes one line to stderr,
\* reporter:counter:<group>,<counter>,<amount> and a newline, with every
\* comma of group and counter turned into a semicolon, so that the line has
\* exactly two commas, and flushes stderr right after the write; group
\* 'a,b', counter 'c,d', amount 5 give reporter:counter:a;b,c;d,5.
C22_CounterLine ==
    (calls # <<>> /\ calls[1].hook = "increment_counter"
                  /\ CounterArgs[3].int) =>
        LET group == CounterArgs[1]
            counter == CounterArgs[2]
            amount == CounterArgs[3].n
            g == Len(group)
            c == Len(counter)
        IN  /\ Len(stderr) = 2
            /\ stderr[1].op = "write"
            /\ stderr[2] = StderrFlush
            /\ err = "none"
            /\ LET line == stderr[1].line
               IN  /\ Len(line) = g + c + 5
                   /\ line[1] = "reporter:counter:"
                   /\ Semicolons(group, SubSeq(line, 2, g + 1))
                   /\ line[g + 2] = ","
                   /\ Semicolons(counter, SubSeq(line, g + 3, g + c + 2))
                   /\ line[g + c + 3] = ","
                   /\ line[g + c + 4] = ToString(amount)
                   /\ line[g + c + 5] = "\n"
                   /\ Commas(line) = 2
                   /\ (/\ group = <<"a", ",", "b">>
                       /\ counter = <<"c", ",", "d">>
                       /\ amount = 5) =>
                          line = <<"reporter:counter:", "a", ";", "b", ",",
                                   "c", ";", "d", ",", "5", "\n">>

\* the case of C22: the example of the claim
C22_Witness ==
    /\ calls # <<>>
    /\ calls[1].hook = "increment_counter"
    /\ CounterArgs = <<<<"a", ",", "b">>, <<"c", ",", "d">>,
                       [int |-> TRUE, n |-> 5]>>
    /\ Len(stderr) = 2
    /\ Commas(stderr[1].line) = 2

-----------------------------------------------------------------------------
(* Properties of a phase, pull by pull *)

\* how many pairs have been read from the source
ReadSoFar == Len(input) - Len(pairs)

\* the runs of ps, maximal stretches of pairs with one key, each with its
\* key, the position of its first pair and its length
RECURSIVE RunsFrom(_, _)
RunsFrom(ps, start) ==
    IF ps = <<>>
    THEN <<>>
    ELSE LET n == GroupLen(ps, Head(ps)[1])
         IN  <<[key |-> Head(ps)[1], start |-> start, len |-> n]>>
                 \o RunsFrom(SubSeq(ps, n + 1, Len(ps)), start + n)

Runs == RunsFrom(input, 1)

\* the calls of the body hook that have returned
ReturnedCalls == SelectSeq(calls, LAMBDA c : c.key # None)

\* values is what the pairs from position start on carry
ValuesFrom(values, start) ==
    \A j \in 1..Len(values) :
        /\ start + j - 1 <= Len(input)
        /\ values[j] = input[start + j - 1][2]

\* where the pairs handed to the body hook stand in the input
HandedPos ==
    IF mrc = "mapper"
    THEN 1..(Len(ReturnedCalls) + (IF cur.hook # None THEN 1 ELSE 0))
    ELSE UNION {Runs[i].start..(Runs[i].start + Len(ReturnedCalls[i].values) - 1)
                  : i \in 1..Len(ReturnedCalls)}
         \cup (IF cur.hook # None
               THEN LET r == Runs[Len(ReturnedCalls) + 1]
                    IN  r.start..(r.start + Len(cur.values) - 1)
               ELSE {})

\* where the pairs stand that a call of the body hook left of its run
SkippedPos ==
    IF mrc = "mapper"
    THEN {}
    ELSE UNION {(Runs[i].start + Len(ReturnedCalls[i].values))
                   ..(Runs[i].start + Runs[i].len - 1)
                  : i \in 1..Len(ReturnedCalls)}

\* what the mapper yields for the first n pairs of the input, after what
\* mapper_init yields
RECURSIVE MapperOutputs(_)
MapperOutputs(n) ==
    IF n = 0
    THEN IF StepGetItem(step, "mapper_init") # None
         THEN InitFinalYields(StepGetItem(step, "mapper_init"))
         ELSE <<>>
    ELSE MapperOutputs(n - 1) \o
             MapperYields(StepGetItem(step, "mapper"), input[n][1],
                          input[n][2])

\* the pairs a run of the mapper's body goes through
InMapperBody ==
    /\ mrc = "mapper"
    /\ pc = "body"
    /\ StepGetItem(step, "mapper_raw") = None

InTaskBody ==
    /\ mrc \in {"combiner", "reducer"}
    /\ pc = "body"

\* run_mapper: when a pair has been read, all that the pairs before it gave
\* is written
MapperPaced ==
    InMapperBody =>
        LET returned == ReadSoFar - Len(held)
                            - (IF cur.hook # None THEN 1 ELSE 0)
        IN  /\ returned >= 0
            /\ out = MapperOutputs(returned) \o
                       (IF cur.hook # None
                        THEN SubSeq(Yields(cur), 1, cur.emitted)
                        ELSE <<>>)
            /\ stdout = write_lines(picked.write, out)
            /\ held # <<>> => /\ cur.hook = None
                              /\ held = <<input[ReadSoFar]>>

\* run_combiner and run_reducer: the body hook starts on the first pair of
\* its run, and while it runs nothing past the first pair of the next run is
\* read; between two calls nothing past the first pair of the next run
TaskPaced ==
    InTaskBody =>
        LET n == Len(ReturnedCalls) + 1
        IN  IF cur.hook # None
            THEN /\ n <= Len(Runs)
                 /\ cur.key = Runs[n].key
                 /\ ValuesFrom(cur.values, Runs[n].start)
                 /\ Len(cur.values) <= Runs[n].len
                 /\ ReadSoFar >= Runs[n].start
                 /\ ReadSoFar <= Runs[n].start + Runs[n].len
                 /\ cur.values = <<>> =>
                        /\ ReadSoFar = Runs[n].start
                        /\ held = <<input[ReadSoFar]>>
            ELSE IF n <= Len(Runs)
                 THEN ReadSoFar <= Runs[n].start
                 ELSE ReadSoFar <= Len(input)

\* the pairs read that were neither handed to the body hook nor left behind
\* by a call of it that has returned
Pending == (1..ReadSoFar) \ (HandedPos \cup SkippedPos)

\* C23 as stated: at no point is more than one input record read and not
\* yet handed to a hook.
C23_AsStated ==
    (mrc # "none" /\ pc \in {"body", "final", "done"}) =>
        ReadSoFar - Cardinality(HandedPos) <= 1

\* C23: a phase is pull-based.  In run-mapper all the output for input
\* record i is written to the sink before record i+1 is read.  In
\* run-combiner and run-reducer the body hook for a run starts when only the
\* first record of that run has been read, and no record beyond the first
\* record of the next run is read before that hook has finished.  At no
\* point is more than one record both read and held back: every record that
\* was read was handed to a hook, or is a value that the hook of a finished
\* run left unconsumed, or is the one record read last.
C23_PullBased ==
    /\ MapperPaced
    /\ TaskPaced
    /\ (mrc # "none" /\ pc \in {"body", "final", "done"}) =>
           /\ Len(held) <= 1
           /\ Pending \subseteq {ReadSoFar}
           /\ Pending # {} => held = <<input[ReadSoFar]>>

\* the case of C23: a reducer call has taken the one value of its run and
\* asked for more, so that the first pair of the next run is read and held,
\* after an earlier call that left a value of its run behind
C23_Witness ==
    /\ InTaskBody
    /\ Len(ReturnedCalls) = 1
    /\ Len(ReturnedCalls[1].values) < Runs[1].len
    /\ cur.hook # None
    /\ Len(cur.values) = 1
    /\ cur.over
    /\ held # <<>>
    /\ SkippedPos # {}
    /\ ReadSoFar = Runs[2].start + Runs[2].len

\* C26: in a combiner or reducer phase the i-th call of the body hook gets
\* the key of the i-th run and, of its values, a prefix (possibly none, when
\* the hook returns early); what it leaves is skipped: the next call gets the
\* next run, with another key, no value goes to two calls, and at the end
\* the hook was called exactly once per run.
C26_UnconsumedSkipped ==
    (mrc \in {"combiner", "reducer"} /\ pc \in {"body", "final", "done"}) =>
        /\ Len(ReturnedCalls) <= Len(Runs)
        /\ \A i \in 1..Len(ReturnedCalls) :
              /\ ReturnedCalls[i].key = Runs[i].key
              /\ Len(ReturnedCalls[i].values) <= Runs[i].len
              /\ ValuesFrom(ReturnedCalls[i].values, Runs[i].start)
        /\ \A i \in 1..(Len(ReturnedCalls) - 1) :
              ReturnedCalls[i + 1].key # ReturnedCalls[i].key
        /\ \A i, j \in 1..Len(ReturnedCalls) :
              \A a \in 1..Len(ReturnedCalls[i].values),
                 b \in 1..Len(ReturnedCalls[j].values) :
                  (i # j \/ a # b) =>
                      ReturnedCalls[i].values[a] # ReturnedCalls[j].values[b]
        /\ cur.hook # None =>
              /\ Len(ReturnedCalls) < Len(Runs)
              /\ cur.key = Runs[Len(ReturnedCalls) + 1].key
              /\ ReturnedCalls # <<>> =>
                     cur.key # ReturnedCalls[Len(ReturnedCalls)].key
        /\ pc \in {"final", "done"} => Len(ReturnedCalls) = Len(Runs)

\* the case of C26: a phase has ended in which a call took none of the two
\* values of its run, and another only the first of two, each followed by a
\* call for the next run
C26_Witness ==
    /\ mrc \in {"combiner", "reducer"}
    /\ pc = "done"
    /\ Len(Runs) >= 2
    /\ Len(ReturnedCalls) = Len(Runs)
    /\ \E i \in 1..(Len(ReturnedCalls) - 1) :
          /\ Runs[i].len = 2
          /\ Len(ReturnedCalls[i].values) < 2
          /\ ReturnedCalls[i + 1].key # ReturnedCalls[i].key
          /\ Len(ReturnedCalls[i + 1].values) >= 1

====
